---- MODULE Spec2Model ----
(***************************************************************************)
(* A model of the binary container codec of wappd: the JPEG marker-segment *)
(* codec and EXIF injector (internal/processor/jpeg_segments.go) and the   *)
(* MP4 atom parser and movie-header patcher (internal/processor/           *)
(* mp4_atoms.go, video_metadata.go).                                       *)
(*                                                                         *)
(* Buffers are sequences of bytes (0..255).  Go indexes from 0, TLA+ from  *)
(* 1: B(data, i) is Go's data[i] and Slice(data, lo, hi) is data[lo:hi].   *)
(* Every index or slice expression of the source is preceded here by the   *)
(* range check the Go runtime performs; a failed check yields a result     *)
(* with panic = TRUE instead of a value.                                   *)
(***************************************************************************)
EXTENDS Integers, Sequences, FiniteSets, TLC

VARIABLES
    jdata,      \* the JPEG file's bytes
    jchunks,    \* how many chunks the input was built from
    jlog,       \* the codec calls made on the file so far, oldest first
    jpc         \* "input" while the file is being supplied, then "parsed" / "inserted"

jvars == <<jdata, jchunks, jlog, jpc>>

VARIABLES
    segsIn,     \* segment list handed to ReassembleJPEG
    imgIn,      \* image data handed to ReassembleJPEG
    rout,       \* bytes returned by ReassembleJPEG
    rpc         \* "input" / "reassembled"

rvars == <<segsIn, imgIn, rout, rpc>>

VARIABLES
    mdata,      \* the video file's bytes
    matoms,     \* how many atoms the input was built from
    mlog,       \* the calls made on the file so far
    mpc         \* "input" while the file is being supplied, then "parsed" / "updated"

mvars == <<mdata, matoms, mlog, mpc>>

VARIABLES
    unixTime,   \* argument of UnixToQuickTime (int64, as 8 bytes)
    qtTime,     \* its result (uint32, as 4 bytes)
    backToUnix, \* QuickTimeToUnix(qtTime) (int64, as 8 bytes)
    qpc         \* "input" / "converted" / "back"

qvars == <<unixTime, qtTime, backToUnix, qpc>>

VARIABLES
    payloadLen, \* len(exifPayload) of an InsertEXIFSegment call
    lengthField,\* the Length of the APP1 segment the call builds
    lpc         \* "input" / "built"

lvars == <<payloadLen, lengthField, lpc>>

VARIABLES
    dateTime,   \* argument of CreateEXIFSegment: the fields of a time.Time
    exifOut,    \* the payload it returned
    epc         \* "input" / "created"

evars == <<dateTime, exifOut, epc>>

VARIABLES
    world,      \* the file system: files, directories, and the operations done on it
    config,     \* the Config of the call
    target,     \* the path the call is made on
    outcome,    \* what the call returned
    fpc         \* "ready" / "done"

fvars == <<world, config, target, outcome, fpc>>

\* MergeConfig: the config file (as loaded, or absent), the command line's
\* configuration, and the merged configuration
VARIABLES fileConfig, cliConfig, merged, cpc

cvars == <<fileConfig, cliConfig, merged, cpc>>

\* FindAPP1Segment: the segment list, (index, segment) returned, "input" / "found"
VARIABLES asegs, ares, apc

avars == <<asegs, ares, apc>>

vars == <<jvars, rvars, mvars, qvars, lvars, evars, fvars, cvars, avars>>

----------------------------------------------------------------------------
(* Bounds of the model *)

MaxChunks == 3      \* chunks appended after the start of a JPEG input
MaxInserts == 2     \* InsertEXIFSegment calls on one file
MaxSegs == 2        \* segments handed to ReassembleJPEG
MaxImg == 3         \* bytes of image data handed to ReassembleJPEG
MaxAtoms == 4       \* atoms an MP4 input is built from
MaxFindSegs == 3    \* segments handed to FindAPP1Segment

----------------------------------------------------------------------------
(* Bytes and slices *)

InRange(data, i) == 0 <= i /\ i < Len(data)

B(data, i) == data[i + 1]

SliceOK(data, lo, hi) == 0 <= lo /\ lo <= hi /\ hi <= Len(data)

Slice(data, lo, hi) == SubSeq(data, lo + 1, hi)

\* binary.BigEndian.Uint16 / PutUint16
Uint16(b) == b[1] * 256 + b[2]

PutUint16(v) == <<v \div 256, v % 256>>

\* bytes.HasSuffix
HasSuffix(s, suffix) ==
    /\ Len(s) >= Len(suffix)
    /\ SubSeq(s, Len(s) - Len(suffix) + 1, Len(s)) = suffix

RECURSIVE Flatten(_)
Flatten(ss) == IF ss = <<>> THEN <<>> ELSE Head(ss) \o Flatten(Tail(ss))

----------------------------------------------------------------------------
(* jpeg_segments.go *)

markerSOI == 216
markerEOI == 217
markerAPP1 == 225
markerAPP0 == 224
markerSOF0 == 192
markerSOF3 == 195

\* "Exif\x00\x00"
ExifId == <<69, 120, 105, 102, 0, 0>>

JPEGSegment(marker, length, payload) ==
    [Marker |-> marker, Length |-> length, Payload |-> payload]

IsSOF(marker) == marker >= markerSOF0 /\ marker <= markerSOF3

\* The result of ParseJPEGSegments: (segments, err), with the position at
\* which the scan ended and whether the call panicked instead of returning.
ParseResult(segments, err, pos, panic) ==
    [segments |-> segments, err |-> err, pos |-> pos, panic |-> panic]

\* The inner loop: advance to the next 0xFF that is followed by neither 0xFF
\* nor 0x00.  -1 stands for an index out of range.
RECURSIVE FindMarker(_, _)
FindMarker(data, pos) ==
    IF pos < Len(data) - 1
    THEN IF ~InRange(data, pos) \/ ~InRange(data, pos + 1) THEN -1
         ELSE IF B(data, pos) # 255 \/ B(data, pos + 1) = 255 \/ B(data, pos + 1) = 0
              THEN FindMarker(data, pos + 1)
              ELSE pos
    ELSE pos

\* LengthCutOff with the bound off by one (pos+2 >= len(data))
LengthCutOffShort(data, pos) == pos + 2 >= Len(data)

\* pos+3 >= len(data): the two length bytes are not both inside the buffer
LengthCutOff(data, pos) == pos + 3 >= Len(data)

\* PayloadOverrun that lets the payload end one byte past the buffer
PayloadOverrunByOne(data, payloadEnd) == payloadEnd > Len(data) + 1

\* payloadEnd > len(data)
PayloadOverrun(data, payloadEnd) == payloadEnd > Len(data)

\* StopsAt without the Start-Of-Frame family
StopsAtEOIOnly(marker) == marker = markerEOI

\* the markers at which segment collection stops
StopsAt(marker) == marker = markerEOI \/ IsSOF(marker)

\* The outer loop of ParseJPEGSegments from position pos0.
RECURSIVE ParseLoop(_, _, _)
ParseLoop(data, pos0, segments) ==
    IF ~(pos0 < Len(data)) THEN ParseResult(segments, "", pos0, FALSE)
    ELSE LET pos == FindMarker(data, pos0) IN
    IF pos < 0 THEN ParseResult(<<>>, "", pos0, TRUE)
    ELSE IF pos >= Len(data) - 1 THEN ParseResult(segments, "", pos, FALSE)
    ELSE IF ~InRange(data, pos + 1) THEN ParseResult(<<>>, "", pos, TRUE)
    ELSE LET marker == B(data, pos + 1) IN
    IF StopsAt(marker) THEN ParseResult(segments, "", pos, FALSE)
    ELSE IF LengthCutOff(data, pos)
    THEN ParseResult(<<>>, "invalid JPEG: incomplete segment length", pos, FALSE)
    ELSE IF ~SliceOK(data, pos + 2, pos + 4) THEN ParseResult(<<>>, "", pos, TRUE)
    ELSE LET length == Uint16(Slice(data, pos + 2, pos + 4)) IN
    IF length < 2
    THEN ParseResult(<<>>, "invalid JPEG: invalid segment length", pos, FALSE)
    ELSE LET payloadStart == pos + 4
             payloadEnd == pos + 2 + length IN
    IF PayloadOverrun(data, payloadEnd)
    THEN ParseResult(<<>>, "invalid JPEG: segment extends beyond file", pos, FALSE)
    ELSE IF payloadEnd - payloadStart < 0 \/ ~SliceOK(data, payloadStart, payloadEnd)
    THEN ParseResult(<<>>, "", pos, TRUE)
    ELSE ParseLoop(data, payloadEnd,
                   Append(segments,
                          JPEGSegment(marker, length, Slice(data, payloadStart, payloadEnd))))

\* MissingSOI with the two byte tests joined by "and"
MissingSOIBoth(data) == B(data, 0) # 255 /\ B(data, 1) # markerSOI

\* the first two bytes are not 0xFF 0xD8
MissingSOI(data) == B(data, 0) # 255 \/ B(data, 1) # markerSOI

ParseJPEGSegments(data) ==
    IF Len(data) < 2
    THEN ParseResult(<<>>, "invalid JPEG: file too short", 0, FALSE)
    ELSE IF MissingSOI(data)
    THEN ParseResult(<<>>, "invalid JPEG: missing SOI marker", 0, FALSE)
    ELSE ParseLoop(data, 2, <<>>)

\* IsExif without the test of the marker
IsExifAnyMarker(seg) ==
    /\ Len(seg.Payload) >= 6
    /\ SubSeq(seg.Payload, 1, 6) = ExifId

IsExif(seg) ==
    /\ seg.Marker = markerAPP1
    /\ Len(seg.Payload) >= 6
    /\ SubSeq(seg.Payload, 1, 6) = ExifId

\* FindAPP1Segment: the index (from 0) of the first EXIF APP1 segment, or -1
RECURSIVE FindAPP1From(_, _)
FindAPP1From(segments, i) ==
    IF i >= Len(segments) THEN -1
    ELSE IF IsExif(segments[i + 1]) THEN i
    ELSE FindAPP1From(segments, i + 1)

FindAPP1Segment(segments) == FindAPP1From(segments, 0)

\* both results of FindAPP1Segment: (i, &seg), the pointer being <<seg>>
\* for the copy of segments[i] it points to and <<>> for nil
FindAPP1Pair(segments) ==
    [index |-> FindAPP1Segment(segments),
     segment |-> IF FindAPP1Segment(segments) >= 0
                 THEN <<segments[FindAPP1Segment(segments) + 1]>>
                 ELSE <<>>]

\* SerializeSegment with the length written little-endian
SerializeSegmentLE(seg) ==
    <<255, seg.Marker>> \o <<seg.Length % 256, seg.Length \div 256>> \o seg.Payload

\* one iteration of the segment loop of ReassembleJPEG
SerializeSegment(seg) == <<255, seg.Marker>> \o PutUint16(seg.Length) \o seg.Payload

SerializeSegments(segments) ==
    Flatten([i \in 1..Len(segments) |-> SerializeSegment(segments[i])])

\* NeedsEOI without the test of the suffix
NeedsEOIAlways(imageData) == TRUE

\* EOI is written unless imageData already ends with it
NeedsEOI(imageData) == Len(imageData) = 0 \/ ~HasSuffix(imageData, <<255, markerEOI>>)

ReassembleJPEG(segments, imageData) ==
    <<255, markerSOI>> \o SerializeSegments(segments) \o imageData
        \o (IF NeedsEOI(imageData) THEN <<255, markerEOI>> ELSE <<>>)

\* The result of the raw re-scan of InsertEXIFSegment: segmentsEnd, or a panic.
ScanResult(segmentsEnd, panic) == [segmentsEnd |-> segmentsEnd, panic |-> panic]

RECURSIVE RescanLoop(_, _)
RescanLoop(data, pos) ==
    IF ~(pos < Len(data)) THEN ScanResult(2, FALSE)
    ELSE IF pos >= Len(data) - 1 THEN ScanResult(2, FALSE)
    ELSE IF ~InRange(data, pos) THEN ScanResult(2, TRUE)
    ELSE IF B(data, pos) # 255 THEN RescanLoop(data, pos + 1)
    ELSE IF ~InRange(data, pos + 1) THEN ScanResult(2, TRUE)
    ELSE LET marker == B(data, pos + 1) IN
    IF IsSOF(marker) THEN ScanResult(pos, FALSE)
    ELSE IF marker = markerEOI THEN ScanResult(pos, FALSE)
    ELSE IF pos + 3 < Len(data)
    THEN IF ~SliceOK(data, pos + 2, pos + 4) THEN ScanResult(2, TRUE)
         ELSE RescanLoop(data, pos + 2 + Uint16(Slice(data, pos + 2, pos + 4)))
    ELSE ScanResult(2, FALSE)

\* app1Length := uint16(len(exifPayload) + 2)
App1Length(payloadLength) == (payloadLength + 2) % 65536

\* PlaceAPP1 that puts a new segment last instead of first
PlaceAPP1Last(segments, app1Index, newAPP1) ==
    IF app1Index >= 0
    THEN [segments EXCEPT ![app1Index + 1] = newAPP1]
    ELSE segments \o <<newAPP1>>

\* Replace the found EXIF segment, or put the new one first
PlaceAPP1(segments, app1Index, newAPP1) ==
    IF app1Index >= 0
    THEN [segments EXCEPT ![app1Index + 1] = newAPP1]
    ELSE <<newAPP1>> \o segments

\* The result of InsertEXIFSegment: (out, err), with the segment list that
\* was reassembled and the boundary the re-scan found.
InsertResult(out, err, segments, segmentsEnd, panic) ==
    [out |-> out, err |-> err, segments |-> segments,
     segmentsEnd |-> segmentsEnd, panic |-> panic]

InsertEXIFSegment(data, exifPayload) ==
    LET parsed == ParseJPEGSegments(data) IN
    IF parsed.panic THEN InsertResult(<<>>, "", <<>>, 0, TRUE)
    ELSE IF parsed.err # ""
    THEN InsertResult(<<>>, "failed to parse JPEG", <<>>, 0, FALSE)
    ELSE LET app1Index == FindAPP1Segment(parsed.segments)
             app1Length == App1Length(Len(exifPayload))
             newAPP1 == JPEGSegment(markerAPP1, app1Length, exifPayload)
             segments == PlaceAPP1(parsed.segments, app1Index, newAPP1)
             scan == RescanLoop(data, 2) IN
    IF scan.panic \/ ~SliceOK(data, scan.segmentsEnd, Len(data))
    THEN InsertResult(<<>>, "", segments, scan.segmentsEnd, TRUE)
    ELSE InsertResult(ReassembleJPEG(segments, Slice(data, scan.segmentsEnd, Len(data))),
                      "", segments, scan.segmentsEnd, FALSE)

----------------------------------------------------------------------------
(* 64-bit and 32-bit integers.  An int64 is its 8 two's-complement bytes,  *)
(* a uint32 its 4 bytes, both big-endian, so that Go's wrap-around and     *)
(* truncation are computed and not assumed.                                *)

RECURSIVE AddCarry(_, _, _, _)
AddCarry(a, b, i, carry) ==
    IF i = 0 THEN <<>>
    ELSE LET sum == a[i] + b[i] + carry IN
         AddCarry(a, b, i - 1, sum \div 256) \o <<sum % 256>>

\* a + b on int64 (wraps)
Add64(a, b) == AddCarry(a, b, 8, 0)

\* a - b on int64 (wraps)
Sub64(a, b) ==
    Add64(a, Add64([i \in 1..8 |-> 255 - b[i]], <<0, 0, 0, 0, 0, 0, 0, 1>>))

\* the int64 of a number 0 <= n < 2^31
Int64(n) ==
    <<0, 0, 0, 0, n \div 16777216, (n \div 65536) % 256, (n \div 256) % 256, n % 256>>

\* a < b on int64
RECURSIVE LessFrom(_, _, _)
LessFrom(a, b, i) ==
    IF i > 8 THEN FALSE
    ELSE IF a[i] # b[i] THEN a[i] < b[i]
    ELSE LessFrom(a, b, i + 1)

Less64(a, b) ==
    IF (a[1] >= 128) # (b[1] >= 128) THEN a[1] >= 128 ELSE LessFrom(a, b, 1)

----------------------------------------------------------------------------
(* mp4_atoms.go *)

quickTimeEpochOffset == 2082844800

\* UnixToQuickTime keeping bytes 4..7 of the big-endian sum instead of 5..8
UnixToQuickTimeShifted(t) == SubSeq(Add64(t, Int64(quickTimeEpochOffset)), 4, 7)

\* uint32(unixTime + quickTimeEpochOffset): the low 4 bytes of the int64 sum
UnixToQuickTime(t) == SubSeq(Add64(t, Int64(quickTimeEpochOffset)), 5, 8)

\* int64(qtTime) - quickTimeEpochOffset
QuickTimeToUnix(q) == Sub64(<<0, 0, 0, 0>> \o q, Int64(quickTimeEpochOffset))

\* Atom type codes
Ftyp == <<102, 116, 121, 112>>
Moov == <<109, 111, 111, 118>>
Mvhd == <<109, 118, 104, 100>>
Trak == <<116, 114, 97, 107>>
Mdia == <<109, 100, 105, 97>>
Minf == <<109, 105, 110, 102>>
Stbl == <<115, 116, 98, 108>>
Edts == <<101, 100, 116, 115>>
Udta == <<117, 100, 116, 97>>

isContainerAtom(atomType) == atomType \in {Moov, Trak, Mdia, Minf, Stbl, Edts, Udta}

\* binary.BigEndian.Uint32.  A value of 2^31 or more does not fit the
\* checker's integers and is written as the negative number v - 2^32; it
\* exceeds every length of the model (Huge).  int is 64 bits wide, so that
\* int(size) is the same number.
Uint32(b) ==
    (((IF b[1] < 128 THEN b[1] ELSE b[1] - 256) * 256 + b[2]) * 256 + b[3]) * 256 + b[4]

PutUint32(v) == <<(v \div 16777216) % 256, (v \div 65536) % 256, (v \div 256) % 256, v % 256>>

Huge(size) == size < 0

\* An atom of the parsed tree.  Size and DataLen are uint32 / int values in
\* the encoding of Uint32; Data holds the bytes when there are fewer than
\* 2^31 of them, else Data is empty and stands for DataLen zero bytes.  Off
\* is the offset in the file of the atom's header (-1 when the atom was read
\* from a zero-filled allocation and not from the file).
Atom(size, type, data, dataLen, children, off) ==
    [Size |-> size, Type |-> type, Data |-> data, DataLen |-> dataLen,
     Children |-> children, Off |-> off]

\* The result of ParseMP4Atoms / parseChildAtoms: (atoms, err), with whether
\* an allocation was made with the wrapped length size-8 of a size below 8.
AtomsResult(atoms, err, wrapped) == [atoms |-> atoms, err |-> err, wrapped |-> wrapped]

\* int(size) > len(data)-pos
SizeExceeds(size, remaining) == Huge(size) \/ size > remaining

\* IsExtendedSize that never recognises the extended-size marker
IsExtendedSizeNever(size) == FALSE

\* size == 1: a 64-bit size follows the header
IsExtendedSize(size) == size = 1

\* make([]byte, size-8) with size-8 computed on uint32
WrapsLength(size) == ~Huge(size) /\ size < 8

\* parseChildAtoms on the zero-filled allocation of a container whose size is
\* below 8: one atom of size 0, taken to span the 2^32-8+size bytes.
ZeroChildren(size) ==
    <<Atom(size - 8, <<0, 0, 0, 0>>, <<>>, size - 16, <<>>, -1)>>

RECURSIVE parseChildLoop(_, _, _, _, _)
parseChildLoop(data, pos, atoms, base, wrapped) ==
    IF ~(pos < Len(data)) THEN AtomsResult(atoms, "", wrapped)
    ELSE IF pos + 8 > Len(data) THEN AtomsResult(atoms, "", wrapped)
    ELSE LET raw == Uint32(Slice(data, pos, pos + 4))
             atomType == Slice(data, pos + 4, pos + 8) IN
    IF raw = 1
    THEN AtomsResult(<<>>, "extended size atoms not yet supported in children", wrapped)
    ELSE LET size == IF raw = 0 THEN Len(data) - pos ELSE raw IN
    IF SizeExceeds(size, Len(data) - pos) THEN AtomsResult(atoms, "", wrapped)
    ELSE LET wraps == WrapsLength(size)
             atomData == IF size > 8 THEN Slice(data, pos + 8, pos + size) ELSE <<>>
             dataLen == size - 8
             nested == IF isContainerAtom(atomType) /\ dataLen # 0 /\ ~wraps
                       THEN parseChildLoop(atomData, 0, <<>>, base + pos + 8, FALSE)
                       ELSE AtomsResult(<<>>, "", FALSE)
             children == IF isContainerAtom(atomType) /\ wraps THEN ZeroChildren(size)
                         ELSE IF nested.err = "" THEN nested.atoms ELSE <<>>
             atom == Atom(size, atomType, atomData, dataLen, children, base + pos) IN
         parseChildLoop(data, pos + size, Append(atoms, atom), base,
                        wrapped \/ wraps \/ nested.wrapped)

parseChildAtoms(data, base) == parseChildLoop(data, 0, <<>>, base, FALSE)

RECURSIVE ParseMP4Loop(_, _, _, _)
ParseMP4Loop(data, pos, atoms, wrapped) ==
    IF ~(pos < Len(data)) THEN AtomsResult(atoms, "", wrapped)
    ELSE IF pos + 8 > Len(data)
    THEN IF Len(atoms) = 0
         THEN AtomsResult(<<>>, "data too short: need at least 8 bytes for atom header", wrapped)
         ELSE AtomsResult(atoms, "", wrapped)
    ELSE LET raw == Uint32(Slice(data, pos, pos + 4))
             atomType == Slice(data, pos + 4, pos + 8) IN
    IF IsExtendedSize(raw)
    THEN IF pos + 16 > Len(data)
         THEN AtomsResult(<<>>, "invalid atom: extended size extends beyond file", wrapped)
         ELSE AtomsResult(<<>>, "extended size atoms not yet supported", wrapped)
    ELSE LET size == IF raw = 0 THEN Len(data) - pos ELSE raw IN
    IF SizeExceeds(size, Len(data) - pos)
    THEN AtomsResult(<<>>, "invalid atom: size extends beyond file", wrapped)
    ELSE LET wraps == WrapsLength(size)
             atomData == IF size > 8 THEN Slice(data, pos + 8, pos + size) ELSE <<>>
             dataLen == size - 8
             nested == IF isContainerAtom(atomType) /\ dataLen # 0 /\ ~wraps
                       THEN parseChildAtoms(atomData, pos + 8)
                       ELSE AtomsResult(<<>>, "", FALSE)
             children == IF isContainerAtom(atomType) /\ wraps THEN ZeroChildren(size)
                         ELSE IF nested.err = "" THEN nested.atoms ELSE <<>>
             atom == Atom(size, atomType, atomData, dataLen, children, pos) IN
         ParseMP4Loop(data, pos + size, Append(atoms, atom), wrapped \/ wraps \/ nested.wrapped)

ParseMP4Atoms(data) ==
    IF Len(data) = 0 THEN AtomsResult(<<>>, "empty data", FALSE)
    ELSE ParseMP4Loop(data, 0, <<>>, FALSE)

\* A pointer to an atom, or nil
Found(atom) == [found |-> TRUE, atom |-> atom]

NotFound == [found |-> FALSE, atom |-> Atom(0, <<>>, <<>>, 0, <<>>, -1)]

RECURSIVE FindAtomFrom(_, _, _)
FindAtomFrom(atoms, atomType, i) ==
    IF i > Len(atoms) THEN NotFound
    ELSE IF atoms[i].Type = atomType THEN Found(atoms[i])
    ELSE FindAtomFrom(atoms, atomType, i + 1)

FindAtom(atoms, atomType) == FindAtomFrom(atoms, atomType, 1)

RECURSIVE FindAtomRecursive(_, _)
RECURSIVE FindInChildren(_, _, _)
FindInChildren(children, atomType, i) ==
    IF i > Len(children) THEN NotFound
    ELSE LET found == FindAtomRecursive(children[i], atomType) IN
         IF found.found THEN found ELSE FindInChildren(children, atomType, i + 1)

FindAtomRecursive(atom, atomType) ==
    IF atom.Type = atomType THEN Found(atom)
    ELSE FindInChildren(atom.Children, atomType, 1)

----------------------------------------------------------------------------
(* video_metadata.go *)

\* The result of findAtomPosition / findAtomInChildren: (pos, err), or a panic.
PosResult(pos, err, panic) == [pos |-> pos, err |-> err, panic |-> panic]

\* data[pos+8 : pos+int(size)] of a slice that starts at offset lo of the
\* array arr: Go checks the upper bound against the capacity, which runs to
\* the end of the array.
ChildSliceOK(arr, lo, pos, size) == ~Huge(size) /\ lo + pos + size <= Len(arr)

\* findAtomInChildren on the slice arr[lo : lo+n]
RECURSIVE findInChildrenLoop(_, _, _, _, _)
findInChildrenLoop(arr, lo, n, pos, atomType) ==
    IF ~(pos < n) \/ pos + 8 > n THEN PosResult(-1, "atom not found in children", FALSE)
    ELSE LET size == Uint32(Slice(arr, lo + pos, lo + pos + 4))
             currentType == Slice(arr, lo + pos + 4, lo + pos + 8) IN
    IF currentType = atomType THEN PosResult(pos, "", FALSE)
    ELSE IF size = 0 THEN PosResult(-1, "atom not found in children", FALSE)
    ELSE IF size = 1 THEN PosResult(-1, "extended size atoms not supported", FALSE)
    ELSE IF isContainerAtom(currentType) /\ (Huge(size) \/ size > 8)
    THEN IF ~ChildSliceOK(arr, lo, pos, size) THEN PosResult(-1, "", TRUE)
         ELSE LET child == findInChildrenLoop(arr, lo + pos + 8, size - 8, 0, atomType) IN
              IF child.panic THEN child
              ELSE IF child.err = "" THEN PosResult(pos + 8 + child.pos, "", FALSE)
              ELSE findInChildrenLoop(arr, lo, n, pos + size, atomType)
    ELSE IF Huge(size) THEN PosResult(-1, "atom not found in children", FALSE)
    ELSE findInChildrenLoop(arr, lo, n, pos + size, atomType)

findAtomInChildren(arr, lo, n, atomType) == findInChildrenLoop(arr, lo, n, 0, atomType)

\* findAtomPosition on the file arr[0 : n]
RECURSIVE findPositionLoop(_, _, _, _)
findPositionLoop(arr, n, pos, atomType) ==
    IF ~(pos < n) \/ pos + 8 > n THEN PosResult(-1, "atom not found", FALSE)
    ELSE LET size == Uint32(Slice(arr, pos, pos + 4))
             currentType == Slice(arr, pos + 4, pos + 8) IN
    IF currentType = atomType THEN PosResult(pos, "", FALSE)
    ELSE IF size = 0 THEN PosResult(-1, "atom not found", FALSE)
    ELSE IF size = 1 THEN PosResult(-1, "extended size atoms not supported", FALSE)
    ELSE IF isContainerAtom(currentType) /\ (Huge(size) \/ size > 8)
    THEN IF ~ChildSliceOK(arr, 0, pos, size) THEN PosResult(-1, "", TRUE)
         ELSE LET child == findAtomInChildren(arr, pos + 8, size - 8, atomType) IN
              IF child.panic THEN child
              ELSE IF child.err = "" THEN PosResult(pos + 8 + child.pos, "", FALSE)
              ELSE findPositionLoop(arr, n, pos + size, atomType)
    ELSE IF Huge(size) THEN PosResult(-1, "atom not found", FALSE)
    ELSE findPositionLoop(arr, n, pos + size, atomType)

findAtomPosition(arr, n, atomType) == findPositionLoop(arr, n, 0, atomType)

\* The result of updateMvhdCreationTime / UpdateVideoMetadata: (newData, err),
\* or a panic; with the position found for mvhd, the atom the tree gave, and
\* whether a wrapped length was allocated on the way.
UpdateResult(out, err, panic, mvhdPos, mvhdAtom, wrapped) ==
    [out |-> out, err |-> err, panic |-> panic, mvhdPos |-> mvhdPos,
     mvhdAtom |-> mvhdAtom, wrapped |-> wrapped]

\* binary.BigEndian.PutUint32/PutUint64(newData[lo:hi], ...)
PutAt(newData, lo, bytes) ==
    [i \in 1..Len(newData) |->
        IF i > lo /\ i <= lo + Len(bytes) THEN bytes[i - lo] ELSE newData[i]]

\* len(mvhdAtom.Data) < 4
DataTooShort(atom) == ~Huge(atom.DataLen) /\ atom.DataLen < 4

\* mvhdAtom.Data[0]
Version(atom) == IF atom.Data = <<>> THEN 0 ELSE atom.Data[1]

\* offset in the mvhd body of the creation time
creationTimeOffset == 4

\* the bound checked before the version-0 writes
V0Guard(mvhdPos, n) == mvhdPos + 8 + creationTimeOffset + 4 > n

updateMvhdCreationTime(arr, n, mvhdAtom, t, wrapped) ==
    LET found == findAtomPosition(arr, n, Mvhd)
        mvhdPos == found.pos
        field == mvhdPos + 8 + creationTimeOffset
        qt == UnixToQuickTime(t)
        newData == SubSeq(arr, 1, n) IN
    IF found.panic THEN UpdateResult(<<>>, "", TRUE, -1, mvhdAtom, wrapped)
    ELSE IF found.err # ""
    THEN UpdateResult(<<>>, "failed to find mvhd position", FALSE, -1, mvhdAtom, wrapped)
    ELSE IF DataTooShort(mvhdAtom)
    THEN UpdateResult(<<>>, "mvhd atom data too short", FALSE, mvhdPos, mvhdAtom, wrapped)
    ELSE IF Version(mvhdAtom) = 0
    THEN IF V0Guard(mvhdPos, n)
         THEN UpdateResult(<<>>, "mvhd atom extends beyond file", FALSE, mvhdPos, mvhdAtom, wrapped)
         ELSE IF ~SliceOK(newData, field, field + 4) \/ ~SliceOK(newData, field + 4, field + 8)
         THEN UpdateResult(<<>>, "", TRUE, mvhdPos, mvhdAtom, wrapped)
         ELSE UpdateResult(PutAt(PutAt(newData, field, qt), field + 4, qt),
                           "", FALSE, mvhdPos, mvhdAtom, wrapped)
    ELSE IF Version(mvhdAtom) = 1
    THEN IF mvhdPos + 8 + creationTimeOffset + 8 > n
         THEN UpdateResult(<<>>, "mvhd atom extends beyond file", FALSE, mvhdPos, mvhdAtom, wrapped)
         ELSE IF ~SliceOK(newData, field, field + 8) \/ ~SliceOK(newData, field + 8, field + 16)
         THEN UpdateResult(<<>>, "", TRUE, mvhdPos, mvhdAtom, wrapped)
         ELSE UpdateResult(PutAt(PutAt(newData, field, <<0, 0, 0, 0>> \o qt),
                                 field + 8, <<0, 0, 0, 0>> \o qt),
                           "", FALSE, mvhdPos, mvhdAtom, wrapped)
    ELSE UpdateResult(<<>>, "unsupported mvhd version", FALSE, mvhdPos, mvhdAtom, wrapped)

\* UpdateVideoMetadata up to the write: data is the file as read, arr[0:n],
\* where arr is the array the read allocated (its capacity may exceed n).
UpdateVideoMetadata(arr, n, t) ==
    LET data == SubSeq(arr, 1, n)
        parsed == ParseMP4Atoms(data)
        moovAtom == FindAtom(parsed.atoms, Moov)
        mvhdAtom == FindAtomRecursive(moovAtom.atom, Mvhd) IN
    IF n < 8
    THEN UpdateResult(<<>>, "file too short to be a valid MP4/MOV/3GP", FALSE, -1, NotFound.atom, FALSE)
    ELSE IF Slice(data, 4, 8) # Ftyp
    THEN UpdateResult(<<>>, "missing ftyp atom", FALSE, -1, NotFound.atom, FALSE)
    ELSE IF parsed.err # ""
    THEN UpdateResult(<<>>, "failed to parse MP4 atoms", FALSE, -1, NotFound.atom, parsed.wrapped)
    ELSE IF ~moovAtom.found
    THEN UpdateResult(<<>>, "moov atom not found", FALSE, -1, NotFound.atom, parsed.wrapped)
    ELSE IF ~mvhdAtom.found
    THEN UpdateResult(<<>>, "mvhd atom not found in moov", FALSE, -1, NotFound.atom, parsed.wrapped)
    ELSE updateMvhdCreationTime(arr, n, mvhdAtom.atom, t, parsed.wrapped)

----------------------------------------------------------------------------
(* exif_tags.go and the EXIF payload builder *)

tagImageWidth == 256
tagImageLength == 257
tagOrientation == 274
tagExifIFD == 34665
tagDateTimeOriginal == 36867

typeASCII == 2
typeShort == 3
typeLong == 4

\* binary.LittleEndian.PutUint16 / PutUint32
PutUint16LE(v) == <<v % 256, (v \div 256) % 256>>

PutUint32LE(v) == <<v % 256, (v \div 256) % 256, (v \div 65536) % 256, (v \div 16777216) % 256>>

TagEntry(tagID, tagType, count, value) ==
    [TagID |-> tagID, TagType |-> tagType, Count |-> count, Value |-> value]

CreateTagEntry(tagID, tagType, count, valueOrOffset) ==
    PutUint16LE(tagID) \o PutUint16LE(tagType) \o PutUint32LE(count) \o PutUint32LE(valueOrOffset)

RECURSIVE EntriesBytes(_, _)
EntriesBytes(entries, i) ==
    IF i > Len(entries) THEN <<>>
    ELSE CreateTagEntry(entries[i].TagID, entries[i].TagType, entries[i].Count, entries[i].Value)
         \o EntriesBytes(entries, i + 1)

CreateIFD(entries, nextIFDOffset) ==
    PutUint16LE(Len(entries) % 65536) \o EntriesBytes(entries, 1) \o PutUint32LE(nextIFDOffset)

\* "II", the magic number 42, the offset of IFD0
CreateTIFFHeader(ifdOffset) == <<73, 73>> \o PutUint16LE(42) \o PutUint32LE(ifdOffset)

\* the decimal digits of n >= 0, as ASCII
RECURSIVE Decimal(_)
Decimal(n) == IF n < 10 THEN <<48 + n>> ELSE Decimal(n \div 10) \o <<48 + (n % 10)>>

\* time.Format's number: a minus sign for x < 0, then the digits of |x|
\* padded with zeros to width
AppendInt(x, width) ==
    LET u == IF x < 0 THEN -x ELSE x
        digits == Decimal(u)
        pad == IF Len(digits) < width THEN [i \in 1..(width - Len(digits)) |-> 48] ELSE <<>> IN
    (IF x < 0 THEN <<45>> ELSE <<>>) \o pad \o digits

\* FormatDateTimeOriginal without the terminating zero byte
FormatDateTimeOriginalNoNul(t) ==
    AppendInt(t.year, 4) \o <<58>> \o AppendInt(t.month, 2) \o <<58>> \o AppendInt(t.day, 2)
    \o <<32>> \o AppendInt(t.hour, 2) \o <<58>> \o AppendInt(t.minute, 2) \o <<58>>
    \o AppendInt(t.second, 2)

\* t.Format("2006:01:02 15:04:05") + "\x00"
FormatDateTimeOriginal(t) ==
    AppendInt(t.year, 4) \o <<58>> \o AppendInt(t.month, 2) \o <<58>> \o AppendInt(t.day, 2)
    \o <<32>> \o AppendInt(t.hour, 2) \o <<58>> \o AppendInt(t.minute, 2) \o <<58>>
    \o AppendInt(t.second, 2) \o <<0>>

ifd0Offset == 8

\* exifIFDOffset for an IFD0 of three entries
exifIFDOffsetThreeEntries == ifd0Offset + 2 + 3 * 12 + 4

exifIFDOffset == ifd0Offset + 2 + 4 * 12 + 4

dateTimeOffset == exifIFDOffset + 2 + 1 * 12 + 4

CreateEXIFSegment(t) ==
    LET dateTimeBytes == FormatDateTimeOriginal(t)
        ifd0Entries == <<TagEntry(tagImageWidth, typeLong, 1, 0),
                         TagEntry(tagImageLength, typeLong, 1, 0),
                         TagEntry(tagOrientation, typeShort, 1, 1),
                         TagEntry(tagExifIFD, typeLong, 1, exifIFDOffset)>>
        exifIFDEntries == <<TagEntry(tagDateTimeOriginal, typeASCII,
                                     Len(dateTimeBytes), dateTimeOffset)>>
        ifd0 == CreateIFD(ifd0Entries, 0)
        exifIFD == CreateIFD(exifIFDEntries, 0)
        tiffHeader == CreateTIFFHeader(ifd0Offset) IN
    ExifId \o tiffHeader \o ifd0 \o exifIFD \o dateTimeBytes

CreateEXIFSegmentWithDefaults(t, imageWidth, imageLength) ==
    LET dateTimeBytes == FormatDateTimeOriginal(t)
        ifd0Entries == <<TagEntry(tagImageWidth, typeLong, 1, imageWidth),
                         TagEntry(tagImageLength, typeLong, 1, imageLength),
                         TagEntry(tagOrientation, typeShort, 1, 1),
                         TagEntry(tagExifIFD, typeLong, 1, exifIFDOffset)>>
        exifIFDEntries == <<TagEntry(tagDateTimeOriginal, typeASCII,
                                     Len(dateTimeBytes), dateTimeOffset)>>
        ifd0 == CreateIFD(ifd0Entries, 0)
        exifIFD == CreateIFD(exifIFDEntries, 0)
        tiffHeader == CreateTIFFHeader(ifd0Offset) IN
    ExifId \o tiffHeader \o ifd0 \o exifIFD \o dateTimeBytes

----------------------------------------------------------------------------
(* The JPEG files the model supplies: a start, then up to MaxChunks chunks. *)

\* a payload byte that is no marker, length or identifier byte
Junk == <<65>>

JPEGStarts ==
    {<<>>, <<255>>, <<255, 255>>, <<markerSOI, 255>>, <<255, markerAPP1, 0, 2>>,
     <<255, markerSOI>>}

SegmentChunk(marker, length, payload) == <<255, marker>> \o PutUint16(length) \o payload

JPEGChunks ==
    {<<255, markerEOI>>, <<255, markerSOF0>>, <<255>>, <<0>>, Junk}
    \cup {SegmentChunk(markerAPP0, 2, <<>>),
          SegmentChunk(markerAPP0, 1, <<>>),
          SegmentChunk(markerAPP0, 4, Junk),
          SegmentChunk(markerAPP1, 3, Junk),
          SegmentChunk(markerAPP1, 8, ExifId)}

\* The file of TestParseJPEGSegments
TestJPEG ==
    <<255, markerSOI>> \o SegmentChunk(markerAPP1, 16, ExifId \o <<73, 73, 42, 0, 8, 0, 0, 0>>)
        \o <<255, markerSOF0>>

ExifPayloads == {ExifId, ExifId \o Junk, Junk}

HasSOI(data) == Len(data) >= 2 /\ data[1] = 255 /\ data[2] = markerSOI

JInit ==
    /\ jdata \in JPEGStarts \cup {TestJPEG}
    /\ jchunks = 0
    /\ jlog = <<>>
    /\ jpc = "input"
    /\ segsIn = <<>> /\ imgIn = <<>> /\ rout = <<>> /\ rpc = "idle"
    /\ mdata = <<>> /\ matoms = 0 /\ mlog = <<>> /\ mpc = "idle"
    /\ unixTime = <<>> /\ qtTime = <<>> /\ backToUnix = <<>> /\ qpc = "idle"
    /\ payloadLen = 0 /\ lengthField = 0 /\ lpc = "idle"
    /\ dateTime = <<>> /\ exifOut = <<>> /\ epc = "idle"
    /\ world = <<>> /\ config = <<>> /\ target = <<>> /\ outcome = <<>> /\ fpc = "idle"
    /\ fileConfig = <<>> /\ cliConfig = <<>> /\ merged = <<>> /\ cpc = "idle"
    /\ asegs = <<>> /\ ares = <<>> /\ apc = "idle"

\* The environment supplies more of the file.
AppendChunk(c) ==
    /\ jpc = "input"
    /\ HasSOI(jdata)
    /\ jchunks < MaxChunks
    /\ jdata' = jdata \o c
    /\ jchunks' = jchunks + 1
    /\ UNCHANGED <<jlog, jpc>>
    /\ UNCHANGED <<rvars, mvars, qvars, lvars, evars, fvars, cvars, avars>>

\* A call of ParseJPEGSegments on the file.
DoParse ==
    /\ jpc = "input"
    /\ jlog' = Append(jlog, [op |-> "parse", in |-> jdata, payload |-> <<>>,
                              res |-> ParseJPEGSegments(jdata)])
    /\ jpc' = "parsed"
    /\ UNCHANGED <<jdata, jchunks>>
    /\ UNCHANGED <<rvars, mvars, qvars, lvars, evars, fvars, cvars, avars>>

\* A call of InsertEXIFSegment on the file; as in updateJPEGExif, the file is
\* rewritten with the result when the call returns no error.  A later call
\* on the same file injects the same payload again.
DoInsert(p) ==
    /\ jpc \in {"input", "inserted"}
    /\ Len(jlog) < MaxInserts
    /\ jlog # <<>> => p = jlog[Len(jlog)].payload
    /\ LET res == InsertEXIFSegment(jdata, p) IN
       /\ jlog' = Append(jlog, [op |-> "insert", in |-> jdata, payload |-> p, res |-> res])
       /\ jdata' = IF res.panic \/ res.err # "" THEN jdata ELSE res.out
       /\ jpc' = IF res.panic \/ res.err # "" THEN "failed" ELSE "inserted"
    /\ UNCHANGED jchunks
    /\ UNCHANGED <<rvars, mvars, qvars, lvars, evars, fvars, cvars, avars>>

JNext ==
    \/ \E c \in JPEGChunks : AppendChunk(c)
    \/ DoParse
    \/ \E p \in ExifPayloads : DoInsert(p)


----------------------------------------------------------------------------
(* The inputs of ReassembleJPEG the model supplies: up to MaxSegs segments,  *)
(* well-formed or not (the function trusts its inputs), and up to MaxImg    *)
(* bytes of image data.                                                     *)

SegmentInputs ==
    {JPEGSegment(markerAPP1, 2, <<>>),
     JPEGSegment(markerAPP0, 3, Junk),
     JPEGSegment(markerAPP1, 3, <<>>),
     JPEGSegment(markerSOF0, 2, <<>>),
     JPEGSegment(markerEOI, 2, <<>>),
     JPEGSegment(255, 2, <<>>),
     JPEGSegment(0, 2, <<>>)}

ImageBytes == {255, markerEOI, markerSOF0, 0}

RInit ==
    /\ segsIn = <<>>
    /\ imgIn = <<>>
    /\ rout = <<>>
    /\ rpc = "input"
    /\ jdata = <<>> /\ jchunks = 0 /\ jlog = <<>> /\ jpc = "idle"
    /\ mdata = <<>> /\ matoms = 0 /\ mlog = <<>> /\ mpc = "idle"
    /\ unixTime = <<>> /\ qtTime = <<>> /\ backToUnix = <<>> /\ qpc = "idle"
    /\ payloadLen = 0 /\ lengthField = 0 /\ lpc = "idle"
    /\ dateTime = <<>> /\ exifOut = <<>> /\ epc = "idle"
    /\ world = <<>> /\ config = <<>> /\ target = <<>> /\ outcome = <<>> /\ fpc = "idle"
    /\ fileConfig = <<>> /\ cliConfig = <<>> /\ merged = <<>> /\ cpc = "idle"
    /\ asegs = <<>> /\ ares = <<>> /\ apc = "idle"

AddSegment(seg) ==
    /\ rpc = "input"
    /\ imgIn = <<>>
    /\ Len(segsIn) < MaxSegs
    /\ segsIn' = Append(segsIn, seg)
    /\ UNCHANGED <<imgIn, rout, rpc>>
    /\ UNCHANGED <<jvars, mvars, qvars, lvars, evars, fvars, cvars, avars>>

AppendImageByte(b) ==
    /\ rpc = "input"
    /\ Len(imgIn) < MaxImg
    /\ imgIn' = Append(imgIn, b)
    /\ UNCHANGED <<segsIn, rout, rpc>>
    /\ UNCHANGED <<jvars, mvars, qvars, lvars, evars, fvars, cvars, avars>>

\* A call of ReassembleJPEG.
DoReassemble ==
    /\ rpc = "input"
    /\ rout' = ReassembleJPEG(segsIn, imgIn)
    /\ rpc' = "reassembled"
    /\ UNCHANGED <<segsIn, imgIn>>
    /\ UNCHANGED <<jvars, mvars, qvars, lvars, evars, fvars, cvars, avars>>

RNext ==
    \/ \E seg \in SegmentInputs : AddSegment(seg)
    \/ \E b \in ImageBytes : AppendImageByte(b)
    \/ DoReassemble


----------------------------------------------------------------------------
(* The payload lengths the model hands to InsertEXIFSegment when only the  *)
(* length field of the new segment is looked at: short payloads, and       *)
(* payloads around the 65533 bytes a segment can hold.                     *)

PayloadLengths == (0..64) \cup (65500..65564)

LInit ==
    /\ payloadLen \in PayloadLengths
    /\ lengthField = 0 /\ lpc = "input"
    /\ jdata = <<>> /\ jchunks = 0 /\ jlog = <<>> /\ jpc = "idle"
    /\ segsIn = <<>> /\ imgIn = <<>> /\ rout = <<>> /\ rpc = "idle"
    /\ mdata = <<>> /\ matoms = 0 /\ mlog = <<>> /\ mpc = "idle"
    /\ unixTime = <<>> /\ qtTime = <<>> /\ backToUnix = <<>> /\ qpc = "idle"
    /\ dateTime = <<>> /\ exifOut = <<>> /\ epc = "idle"
    /\ world = <<>> /\ config = <<>> /\ target = <<>> /\ outcome = <<>> /\ fpc = "idle"
    /\ fileConfig = <<>> /\ cliConfig = <<>> /\ merged = <<>> /\ cpc = "idle"
    /\ asegs = <<>> /\ ares = <<>> /\ apc = "idle"

BuildAPP1 ==
    /\ lpc = "input"
    /\ lengthField' = App1Length(payloadLen)
    /\ lpc' = "built"
    /\ UNCHANGED <<payloadLen, jvars, rvars, mvars, qvars, evars, fvars, cvars, avars>>

LNext == BuildAPP1

----------------------------------------------------------------------------
(* The timestamps the model hands to CreateEXIFSegment: the first and last *)
(* value of every field, for years of one to five digits and a year before *)
(* year 0.                                                                 *)

Years == {-1, 0, 999, 2025, 9999, 10000}

DateTimes ==
    [year : Years, month : {1, 12}, day : {1, 31},
     hour : {0, 23}, minute : {0, 59}, second : {0, 59}]

EInit ==
    /\ dateTime \in DateTimes
    /\ exifOut = <<>> /\ epc = "input"
    /\ jdata = <<>> /\ jchunks = 0 /\ jlog = <<>> /\ jpc = "idle"
    /\ segsIn = <<>> /\ imgIn = <<>> /\ rout = <<>> /\ rpc = "idle"
    /\ mdata = <<>> /\ matoms = 0 /\ mlog = <<>> /\ mpc = "idle"
    /\ unixTime = <<>> /\ qtTime = <<>> /\ backToUnix = <<>> /\ qpc = "idle"
    /\ payloadLen = 0 /\ lengthField = 0 /\ lpc = "idle"
    /\ world = <<>> /\ config = <<>> /\ target = <<>> /\ outcome = <<>> /\ fpc = "idle"
    /\ fileConfig = <<>> /\ cliConfig = <<>> /\ merged = <<>> /\ cpc = "idle"
    /\ asegs = <<>> /\ ares = <<>> /\ apc = "idle"

DoCreateEXIFSegment ==
    /\ epc = "input"
    /\ exifOut' = CreateEXIFSegment(dateTime)
    /\ epc' = "created"
    /\ UNCHANGED <<dateTime, jvars, rvars, mvars, qvars, lvars, fvars, cvars, avars>>

\* the image dimensions handed to CreateEXIFSegmentWithDefaults
Dimensions == {0, 640, 2147483647}

DoCreateEXIFSegmentWithDefaults(imageWidth, imageLength) ==
    /\ epc = "input"
    /\ exifOut' = CreateEXIFSegmentWithDefaults(dateTime, imageWidth, imageLength)
    /\ epc' = "createdWithDefaults"
    /\ UNCHANGED <<dateTime, jvars, rvars, mvars, qvars, lvars, fvars, cvars, avars>>

ENext ==
    \/ DoCreateEXIFSegment
    \/ \E imageWidth \in Dimensions, imageLength \in Dimensions :
           DoCreateEXIFSegmentWithDefaults(imageWidth, imageLength)

----------------------------------------------------------------------------
(* The timestamps the model converts: int64 values around the two ends of  *)
(* the range whose QuickTime value fits 32 bits, around zero and around    *)
(* the ends of int64.                                                      *)

HighWords == {<<0, 0, 0, 0>>, <<255, 255, 255, 255>>, <<0, 0, 0, 1>>,
              <<127, 255, 255, 255>>, <<128, 0, 0, 0>>}

LowWords == {<<0, 0, 0, 0>>, <<0, 0, 0, 1>>, <<103, 144, 53, 0>>,
             <<124, 37, 176, 127>>, <<124, 37, 176, 128>>,
             <<127, 255, 255, 255>>, <<128, 0, 0, 0>>,
             <<131, 218, 79, 127>>, <<131, 218, 79, 128>>, <<131, 218, 79, 129>>,
             <<255, 255, 255, 254>>, <<255, 255, 255, 255>>}

TimeInputs == {hi \o lo : hi \in HighWords, lo \in LowWords}

QInit ==
    /\ unixTime \in TimeInputs
    /\ qtTime = <<>> /\ backToUnix = <<>> /\ qpc = "start"
    /\ jdata = <<>> /\ jchunks = 0 /\ jlog = <<>> /\ jpc = "idle"
    /\ segsIn = <<>> /\ imgIn = <<>> /\ rout = <<>> /\ rpc = "idle"
    /\ mdata = <<>> /\ matoms = 0 /\ mlog = <<>> /\ mpc = "idle"
    /\ payloadLen = 0 /\ lengthField = 0 /\ lpc = "idle"
    /\ dateTime = <<>> /\ exifOut = <<>> /\ epc = "idle"
    /\ world = <<>> /\ config = <<>> /\ target = <<>> /\ outcome = <<>> /\ fpc = "idle"
    /\ fileConfig = <<>> /\ cliConfig = <<>> /\ merged = <<>> /\ cpc = "idle"
    /\ asegs = <<>> /\ ares = <<>> /\ apc = "idle"

DoUnixToQuickTime ==
    /\ qpc = "start"
    /\ qtTime' = UnixToQuickTime(unixTime)
    /\ qpc' = "converted"
    /\ UNCHANGED <<unixTime, backToUnix, jvars, rvars, mvars, lvars, evars, fvars, cvars, avars>>

DoQuickTimeToUnix ==
    /\ qpc = "converted"
    /\ backToUnix' = QuickTimeToUnix(qtTime)
    /\ qpc' = "back"
    /\ UNCHANGED <<unixTime, qtTime, jvars, rvars, mvars, lvars, evars, fvars, cvars, avars>>

QNext == DoUnixToQuickTime \/ DoQuickTimeToUnix

----------------------------------------------------------------------------
(* The MP4 files the model supplies.  A file is built back to front: each  *)
(* step puts one atom in front of the bytes built so far, either as a      *)
(* sibling of what follows or as a container around it.                    *)

\* the header of an atom: 4 bytes size, 4 bytes type
Header(size, atomType) == PutUint32(size) \o atomType

Mvhd0Body == <<0, 0, 0, 0, 1, 1, 1, 1, 2, 2, 2, 2>>

Mvhd0ShortBody == <<0, 0, 0, 0, 1, 1, 1, 1>>

Mvhd1Body == <<1, 0, 0, 0, 1, 1, 1, 1, 1, 1, 1, 1, 2, 2, 2, 2, 2, 2, 2, 2>>

AtomKinds == {"ftyp", "moov", "moov0", "mvhd", "mvhdShort",
              "ftyp4", "ftyp1", "trakHuge", "trakOver", "trakBad",
              "mvhd1", "mvhd2", "moov4"}

AtomInFront(kind, rest) ==
    CASE kind = "ftyp"      -> Header(8, Ftyp) \o rest
      [] kind = "moov"      -> Header(8 + Len(rest), Moov) \o rest
      [] kind = "moov0"     -> Header(0, Moov) \o rest
      [] kind = "mvhd"      -> Header(20, Mvhd) \o Mvhd0Body \o rest
      [] kind = "mvhdShort" -> Header(16, Mvhd) \o Mvhd0ShortBody \o rest
      [] kind = "ftyp4"     -> Header(4, Ftyp) \o rest
      [] kind = "ftyp1"     -> Header(1, Ftyp) \o rest
      [] kind = "moov4"     -> Header(4, Moov) \o rest
      [] kind = "trakHuge"  -> <<255, 255, 255, 255>> \o Trak \o rest
      [] kind = "trakOver"  -> Header(8 + Len(rest) + 4, Trak) \o rest
      [] kind = "mvhd1"     -> Header(28, Mvhd) \o Mvhd1Body \o rest
      [] kind = "mvhd2"     -> Header(12, Mvhd) \o <<2, 0, 0, 0>> \o rest
      [] kind = "trakBad"   -> Header(16, Trak) \o <<255, 255, 255, 255>> \o Trak \o rest

\* what a file ends with before any atom is put in front
MP4Tails == {<<>>, <<0, 0, 0>>}

\* 2025-01-22 00:00:00 UTC, 1969-12-31 23:59:59 UTC, and 2040-02-06 06:28:16
\* UTC, the first second whose QuickTime value needs more than 32 bits
PatchTimes == {Int64(1737504000), <<255, 255, 255, 255, 255, 255, 255, 255>>,
               <<0, 0, 0, 0, 131, 218, 79, 128>>}

\* bytes of capacity past the length of the slice the file was read into
SpareCapacities == {0, 8}

Zeros(n) == [i \in 1..n |-> 0]

MInit ==
    /\ mdata \in MP4Tails
    /\ matoms = 0 /\ mlog = <<>> /\ mpc = "build"
    /\ jdata = <<>> /\ jchunks = 0 /\ jlog = <<>> /\ jpc = "idle"
    /\ segsIn = <<>> /\ imgIn = <<>> /\ rout = <<>> /\ rpc = "idle"
    /\ unixTime = <<>> /\ qtTime = <<>> /\ backToUnix = <<>> /\ qpc = "idle"
    /\ payloadLen = 0 /\ lengthField = 0 /\ lpc = "idle"
    /\ dateTime = <<>> /\ exifOut = <<>> /\ epc = "idle"
    /\ world = <<>> /\ config = <<>> /\ target = <<>> /\ outcome = <<>> /\ fpc = "idle"
    /\ fileConfig = <<>> /\ cliConfig = <<>> /\ merged = <<>> /\ cpc = "idle"
    /\ asegs = <<>> /\ ares = <<>> /\ apc = "idle"

PrependAtom(kind) ==
    /\ mpc = "build"
    /\ matoms < MaxAtoms
    /\ mdata' = AtomInFront(kind, mdata)
    /\ matoms' = matoms + 1
    /\ UNCHANGED <<mlog, mpc, jvars, rvars, qvars, lvars, evars, fvars, cvars, avars>>

BuildMP4 == \E kind \in AtomKinds : PrependAtom(kind)

DoParseMP4 ==
    /\ mpc = "build"
    /\ mlog' = Append(mlog, [op |-> "parse", in |-> mdata, res |-> ParseMP4Atoms(mdata)])
    /\ mpc' = "done"
    /\ UNCHANGED <<mdata, matoms, jvars, rvars, qvars, lvars, evars, fvars, cvars, avars>>

\* UpdateVideoMetadata: the file is rewritten only when the patch succeeded
DoUpdate(t, spare) ==
    /\ mpc = "build"
    /\ LET res == UpdateVideoMetadata(mdata \o Zeros(spare), Len(mdata), t) IN
       /\ mlog' = Append(mlog, [op |-> "update", in |-> mdata, t |-> t, res |-> res])
       /\ mdata' = IF res.err = "" /\ ~res.panic THEN res.out ELSE mdata
    /\ mpc' = "done"
    /\ UNCHANGED <<matoms, jvars, rvars, qvars, lvars, evars, fvars, cvars, avars>>

UpdateMP4 == \E t \in PatchTimes, spare \in SpareCapacities : DoUpdate(t, spare)

MNext == BuildMP4 \/ DoParseMP4 \/ UpdateMP4

----------------------------------------------------------------------------
(* The file system.  A path is a record of its directory, the stem of the   *)
(* file name, how many "_modified" suffixes follow the stem, the            *)
(* extension, and whether it is spelled with a leading "./"; two paths are   *)
(* the same string when the records are equal, and name the same file when  *)
(* they are equal up to the spelling.  A world holds the files (their bytes *)
(* and whether their times are the original ones), the directories, and     *)
(* the list of operations that changed something.  Reads and stats fail     *)
(* for a missing file; the write of the new buffer can also fail, before    *)
(* or after the file was truncated.                                         *)

Path(dir, stem, modified, ext, dot) ==
    [dir |-> dir, stem |-> stem, modified |-> modified, ext |-> ext, dot |-> dot]

\* the file a path names
FileOf(path) == [path EXCEPT !.dot = FALSE]

Exists(w, path) == FileOf(path) \in DOMAIN w.files

Content(w, path) == w.files[FileOf(path)].data

\* what an operation returns: the world after it and the error ("" for nil)
Done(w, err) == [w |-> w, err |-> err]

Logged(w, op, what) == [w EXCEPT !.ops = Append(w.ops, [op |-> op, on |-> what])]

WriteOutcomes == {"ok", "denied", "truncated"}

\* os.WriteFile(path, data, mode)
WriteFile(w, path, data, how) ==
    IF how = "denied" THEN Done(w, "open failed")
    ELSE LET written == IF how = "ok" THEN data ELSE <<>>
             file == [data |-> written, times |-> "now"] IN
         Done(Logged([w EXCEPT !.files = (FileOf(path) :> file) @@ w.files],
                     "write", FileOf(path)),
              IF how = "ok" THEN "" ELSE "write failed")

\* os.Remove(path)
Remove(w, path) ==
    IF ~Exists(w, path) THEN w
    ELSE Logged([w EXCEPT !.files = [f \in DOMAIN w.files \ {FileOf(path)} |-> w.files[f]]],
                "remove", FileOf(path))

\* os.Chtimes(path, t, t)
Chtimes(w, path) ==
    IF ~Exists(w, path) THEN Done(w, "no such file")
    ELSE Done(Logged([w EXCEPT !.files[FileOf(path)].times = "set"], "chtimes", FileOf(path)), "")

MkdirOutcomes == {"ok", "denied"}

\* os.MkdirAll(dir, 0755)
MkdirAll(w, dir, how) ==
    IF dir \in w.dirs THEN Done(w, "")
    ELSE IF how = "denied" THEN Done(w, "mkdir failed")
    ELSE Done(Logged([w EXCEPT !.dirs = w.dirs \cup {dir}], "mkdir", dir), "")

\* copyFile(src, dst)
copyFile(w, src, dst) ==
    IF ~Exists(w, src) THEN Done(w, "no such file")
    ELSE WriteFile(w, dst, Content(w, src), "ok")

----------------------------------------------------------------------------
(* exif.go, and the file operations of video_metadata.go *)

\* what updateExifData and the functions it calls return: the world after
\* the call and the error, or a run-time panic
CallResult(w, err, panic) == [w |-> w, err |-> err, panic |-> panic]

\* KeepsExisting that ignores OverwriteExif
KeepsExistingAlways(app1Index, cfg) == app1Index >= 0

\* existingAPP1 != nil && !config.OverwriteExif
KeepsExisting(app1Index, cfg) == app1Index >= 0 /\ ~cfg.OverwriteExif

\* the end of a function that writes its buffer back: the error of the write
WriteResult(written) ==
    CallResult(written.w, IF written.err # "" THEN "failed to write file" ELSE "", FALSE)


\* updateJPEGExif from the insertion on: the new buffer is written back
WriteInserted(w, filePath, inserted, how) ==
    IF inserted.panic THEN CallResult(w, "", TRUE)
    ELSE IF inserted.err # "" THEN CallResult(w, "failed to insert EXIF segment", FALSE)
    ELSE WriteResult(WriteFile(w, filePath, inserted.out, how))

\* updateJPEGExif from the parse on: an existing EXIF segment is kept unless
\* OverwriteExif is set
InsertIfAbsent(w, filePath, t, cfg, how, parsed) ==
    IF parsed.panic THEN CallResult(w, "", TRUE)
    ELSE IF parsed.err # "" THEN CallResult(w, "failed to parse JPEG segments", FALSE)
    ELSE IF KeepsExisting(FindAPP1Segment(parsed.segments), cfg) THEN CallResult(w, "", FALSE)
    ELSE WriteInserted(w, filePath,
                       InsertEXIFSegment(Content(w, filePath), CreateEXIFSegment(t)), how)

updateJPEGExif(w, filePath, t, cfg, how) ==
    IF cfg.DryRun THEN CallResult(w, "", FALSE)
    ELSE IF ~Exists(w, filePath) THEN CallResult(w, "failed to read file", FALSE)
    ELSE IF ~HasSOI(Content(w, filePath)) THEN CallResult(w, "file is not a valid JPEG", FALSE)
    ELSE InsertIfAbsent(w, filePath, t, cfg, how, ParseJPEGSegments(Content(w, filePath)))

\* UpdateVideoMetadata with its file operations: readFile, the patch, writeFile
\* WritePatched that writes the buffer before it looks at the patch's error
WritePatchedFirst(w, filePath, patched, how) ==
    IF patched.panic THEN CallResult(w, "", TRUE)
    ELSE IF patched.err # "" THEN CallResult(WriteFile(w, filePath, patched.out, how).w, patched.err, FALSE)
    ELSE WriteResult(WriteFile(w, filePath, patched.out, how))

\* UpdateVideoMetadata from the patch on: getFileInfo and writeFile
WritePatched(w, filePath, patched, how) ==
    IF patched.panic THEN CallResult(w, "", TRUE)
    ELSE IF patched.err # "" THEN CallResult(w, patched.err, FALSE)
    ELSE WriteResult(WriteFile(w, filePath, patched.out, how))

\* UpdateVideoMetadata with its file operations: readFile, the patch, writeFile
UpdateVideoMetadataOnFile(w, filePath, t, how, spare) ==
    IF ~Exists(w, filePath) THEN CallResult(w, "failed to read file", FALSE)
    ELSE WritePatched(w, filePath,
                      UpdateVideoMetadata(Content(w, filePath) \o Zeros(spare),
                                          Len(Content(w, filePath)), t.unix),
                      how)

\* strings.ToLower(filepath.Ext(filePath))
ToLower(ext) ==
    CASE ext = ".JPG" -> ".jpg"
      [] ext = ".MP4" -> ".mp4"
      [] OTHER -> ext

\* the extensions updateExifData hands to UpdateVideoMetadata
VideoExts == {".mp4", ".mov", ".m4v", ".3gp"}

JPEGExts == {".jpg", ".jpeg"}

\* fmt.Errorf("<text>: %w", err) on a call's error, nil staying nil
Wrapped(res, text) ==
    IF ~res.panic /\ res.err # "" THEN CallResult(res.w, text, FALSE) ELSE res

updateExifData(w, filePath, t, cfg, how, spare) ==
    IF ToLower(filePath.ext) \in VideoExts
    THEN IF cfg.DryRun THEN CallResult(w, "", FALSE)
         ELSE Wrapped(UpdateVideoMetadataOnFile(w, filePath, t, how, spare),
                      "failed to update video metadata")
    ELSE IF ToLower(filePath.ext) \in JPEGExts THEN updateJPEGExif(w, filePath, t, cfg, how)
    ELSE CallResult(w, "", FALSE)

----------------------------------------------------------------------------
(* processor.go.  A file name is the record of what the default patterns    *)
(* see in it: kind "IMG" or "VID" when IMG-(\d{8})-WA or VID-(\d{8})-WA     *)
(* matches, with the eight digits matched; kind "WhatsApp Image" or         *)
(* "WhatsApp Video" when one of the patterns                                *)
(* WhatsApp Image|Video (\d{4}-\d{2}-\d{2}) at (\d{1,2}\.\d{2}\.\d{2}) (AM|PM) *)
(* matches, with the eight digits of the date, the five or six digits of    *)
(* the time and the meridiem; and "other" when no pattern matches.          *)
(* Directories are clean relative names, "" for an option that was not      *)
(* given and "." for the working directory.                                 *)

Stem(kind, digits, time, meridiem) ==
    [kind |-> kind, digits |-> digits, time |-> time, meridiem |-> meridiem]

\* the number the digits d[from..to] spell
RECURSIVE Number(_, _, _)
Number(d, from, to) ==
    IF from > to THEN 0 ELSE Number(d, from, to - 1) * 10 + d[to]

IsLeap(year) == (year % 4 = 0 /\ year % 100 # 0) \/ year % 400 = 0

DaysIn(month, year) ==
    IF month = 2 THEN (IF IsLeap(year) THEN 29 ELSE 28)
    ELSE IF month \in {4, 6, 9, 11} THEN 30 ELSE 31

RECURSIVE DaysBeforeMonth(_, _)
DaysBeforeMonth(month, year) ==
    IF month = 1 THEN 0 ELSE DaysBeforeMonth(month - 1, year) + DaysIn(month - 1, year)

\* leap years before the year
LeapsBefore(year) == ((year - 1) \div 4) - ((year - 1) \div 100) + ((year - 1) \div 400)

\* days from 1970-01-01 to the date, for the years 1970..2037
DaysSinceEpoch(year, month, day) ==
    365 * (year - 1970) + (LeapsBefore(year) - LeapsBefore(1970))
        + DaysBeforeMonth(month, year) + (day - 1)

\* the seconds from 0001-01-01 00:00:00 UTC to 1970-01-01 00:00:00 UTC,
\* 62135596800, as an int64
YearOneToEpoch == <<0, 0, 0, 14, 119, 145, 247, 0>>

\* Time.Unix of a date and time of the year 1 or of the years 1970..2037
UnixOf(date) ==
    LET secs == date.hour * 3600 + date.minute * 60 + date.second IN
    IF date.year = 1
    THEN Sub64(Int64((DaysBeforeMonth(date.month, 1) + date.day - 1) * 86400 + secs),
               YearOneToEpoch)
    ELSE Int64(DaysSinceEpoch(date.year, date.month, date.day) * 86400 + secs)

\* time.Parse("2006-01-02", dateStr): (time, err); a month or a day out of
\* range gives an error and the zero time.Time, whose date is 0001-01-01
ParseDate(digits) ==
    LET year == Number(digits, 1, 4)
        month == Number(digits, 5, 6)
        day == Number(digits, 7, 8) IN
    IF month \notin 1..12 \/ day \notin 1..DaysIn(month, year)
    THEN [err |-> "parsing time: out of range", year |-> 1, month |-> 1, day |-> 1]
    ELSE [err |-> "", year |-> year, month |-> month, day |-> day]

\* time.Parse("3.04.05 PM", timeStr): (time, err); an hour above 12, a
\* minute or a second above 59 gives an error and the zero time.Time, whose
\* time of day is 00:00:00
ParseClock(time, meridiem) ==
    LET hour == Number(time, 1, Len(time) - 4)
        minute == Number(time, Len(time) - 3, Len(time) - 2)
        second == Number(time, Len(time) - 1, Len(time)) IN
    IF hour > 12 \/ minute > 59 \/ second > 59
    THEN [err |-> "parsing time: out of range", hour |-> 0, minute |-> 0, second |-> 0]
    ELSE [err |-> "",
          hour |-> IF meridiem = "PM" /\ hour < 12 THEN hour + 12
                   ELSE IF meridiem = "AM" /\ hour = 12 THEN 0 ELSE hour,
          minute |-> minute, second |-> second]

\* convertDateTimeFormat: both errors of time.Parse are discarded; the
\* result is "YYYY-MM-DDTHH:MM:SS", kept as its fields
convertDateTimeFormat(digits, time, meridiem) ==
    [err |-> "", hasTime |-> TRUE,
     year |-> ParseDate(digits).year, month |-> ParseDate(digits).month,
     day |-> ParseDate(digits).day,
     hour |-> ParseClock(time, meridiem).hour, minute |-> ParseClock(time, meridiem).minute,
     second |-> ParseClock(time, meridiem).second]

\* ExtractDateFromFilename: the date of the first default pattern that
\* matches, as convertDateFormat writes it (YYYY-MM-DD) or as
\* convertDateTimeFormat writes it, kept as its fields
ExtractDateFromFilename(stem) ==
    IF stem.kind \in {"IMG", "VID"}
    THEN [err |-> "", hasTime |-> FALSE,
          year |-> Number(stem.digits, 1, 4),
          month |-> Number(stem.digits, 5, 6),
          day |-> Number(stem.digits, 7, 8),
          hour |-> 0, minute |-> 0, second |-> 0]
    ELSE IF stem.kind \in {"WhatsApp Image", "WhatsApp Video"}
    THEN convertDateTimeFormat(stem.digits, stem.time, stem.meridiem)
    ELSE [err |-> "no default pattern matched filename", hasTime |-> FALSE,
          year |-> 0, month |-> 0, day |-> 0, hour |-> 0, minute |-> 0, second |-> 0]

\* parseISODateTime: time.Parse("2006-01-02T15:04:05", s) when the string
\* has a "T" and time.Parse("2006-01-02", s) otherwise; a field out of
\* range is rejected; without a time the time is midnight UTC
parseISODateTime(date) ==
    IF date.month \notin 1..12 \/ date.day \notin 1..DaysIn(date.month, date.year)
    THEN [err |-> "parsing time: out of range", t |-> <<>>]
    ELSE IF date.hasTime /\ (date.hour > 23 \/ date.minute > 59 \/ date.second > 59)
    THEN [err |-> "parsing time: out of range", t |-> <<>>]
    ELSE [err |-> "",
          t |-> [year |-> date.year, month |-> date.month, day |-> date.day,
                 hour |-> date.hour, minute |-> date.minute, second |-> date.second,
                 unix |-> UnixOf(date)]]

\* filepath.Abs, relative to the working directory "."
Abs(dir) == IF dir = "" THEN "." ELSE dir

\* addSuffixToPath: "_modified" before the extension
addSuffixToPath(filePath) == [filePath EXCEPT !.modified = @ + 1]

\* filepath.Join(outputDir, filepath.Base(inputPath)); Join cleans its result
JoinBase(outputDir, inputPath) == [inputPath EXCEPT !.dir = outputDir, !.dot = FALSE]

determineOutputPath(inputPath, cfg) ==
    IF cfg.OutputDir = ""
    THEN IF cfg.OverrideOriginal THEN inputPath ELSE addSuffixToPath(inputPath)
    ELSE IF Abs(cfg.OutputDir) = Abs(cfg.InputDir) THEN addSuffixToPath(inputPath)
    ELSE JoinBase(cfg.OutputDir, inputPath)

NoPath == <<>>

\* ProcessResult, with the world ProcessFile leaves and whether it panicked
ProcessResult(w, inputFile, outputFile, success, err, panic) ==
    [w |-> w, InputFile |-> inputFile, OutputFile |-> outputFile,
     Success |-> success, err |-> err, panic |-> panic]

\* ProcessFile after updateExifData succeeded: the modification time
SetModified(w, filePath, outputPath, cfg) ==
    IF cfg.UpdateModified /\ Chtimes(w, outputPath).err # ""
    THEN ProcessResult(w, filePath, NoPath, FALSE, "failed to update modification time", FALSE)
    ELSE ProcessResult(IF cfg.UpdateModified THEN Chtimes(w, outputPath).w ELSE w,
                       filePath, outputPath, TRUE, "", FALSE)

\* ProcessFile from the return of updateExifData on: cleanup on failure
AfterUpdate(filePath, outputPath, cfg, updated) ==
    IF updated.panic THEN ProcessResult(updated.w, filePath, NoPath, FALSE, "", TRUE)
    ELSE IF updated.err # ""
    THEN ProcessResult(IF outputPath # filePath THEN Remove(updated.w, outputPath) ELSE updated.w,
                       filePath, NoPath, FALSE, "failed to update EXIF data", FALSE)
    ELSE SetModified(updated.w, filePath, outputPath, cfg)

\* ProcessFile from the copy on
AfterCopy(filePath, outputPath, t, cfg, how, spare, copied) ==
    IF copied.err # ""
    THEN ProcessResult(copied.w, filePath, NoPath, FALSE, "failed to copy file", FALSE)
    ELSE AfterUpdate(filePath, outputPath, cfg,
                     updateExifData(copied.w, outputPath, t, cfg, how, spare))

\* ProcessFile from the creation of the output directory on
AfterMkdir(filePath, outputPath, t, cfg, how, spare, made) ==
    IF made.err # ""
    THEN ProcessResult(made.w, filePath, NoPath, FALSE, "failed to create output directory", FALSE)
    ELSE AfterCopy(filePath, outputPath, t, cfg, how, spare,
                   IF outputPath # filePath THEN copyFile(made.w, filePath, outputPath)
                   ELSE Done(made.w, ""))

\* ProcessFile that ignores DryRun
ProcessToAlways(w, filePath, t, outputPath, cfg, how, spare, mk) ==
    AfterMkdir(filePath, outputPath, t, cfg, how, spare,
               IF cfg.OutputDir # "" THEN MkdirAll(w, cfg.OutputDir, mk) ELSE Done(w, ""))

\* ProcessFile from the output path on
ProcessTo(w, filePath, t, outputPath, cfg, how, spare, mk) ==
    IF cfg.DryRun THEN ProcessResult(w, filePath, outputPath, TRUE, "", FALSE)
    ELSE AfterMkdir(filePath, outputPath, t, cfg, how, spare,
                    IF cfg.OutputDir # "" THEN MkdirAll(w, cfg.OutputDir, mk) ELSE Done(w, ""))

\* ProcessFile from the parse of the date on
AfterParse(w, filePath, cfg, how, spare, mk, parsed) ==
    IF parsed.err # ""
    THEN ProcessResult(w, filePath, NoPath, FALSE, "invalid date format", FALSE)
    ELSE ProcessTo(w, filePath, parsed.t, determineOutputPath(filePath, cfg), cfg, how, spare, mk)

ProcessFile(w, filePath, cfg, how, spare, mk) ==
    IF ExtractDateFromFilename(filePath.stem).err # ""
    THEN ProcessResult(w, filePath, NoPath, FALSE, ExtractDateFromFilename(filePath.stem).err, FALSE)
    ELSE AfterParse(w, filePath, cfg, how, spare, mk,
                    parseISODateTime(ExtractDateFromFilename(filePath.stem)))

----------------------------------------------------------------------------
(* config.go.  A *bool of ConfigFile is <<>> for nil and <<b>> for a        *)
(* pointer to b; the *ConfigFile is <<>> for nil and <<file>> otherwise.    *)

\* the merge of one boolean option where the file's value always wins
MergeBoolFileWins(cliValue, fileValue) ==
    IF fileValue = <<>> THEN cliValue ELSE fileValue[1]

\* the merge of one boolean option: the block repeated for each *bool field
MergeBool(cliValue, fileValue) ==
    IF fileValue = <<>> THEN cliValue
    ELSE IF cliValue THEN TRUE
    ELSE fileValue[1]

\* the merge of OutputDir
MergeString(cliValue, fileValue) ==
    IF fileValue = "" THEN cliValue
    ELSE IF cliValue # "" THEN cliValue
    ELSE fileValue

MergeConfig(file, cli) ==
    IF file = <<>> THEN cli
    ELSE [cli EXCEPT
            !.UpdateModified = MergeBool(cli.UpdateModified, file[1].UpdateModified),
            !.OverwriteExif = MergeBool(cli.OverwriteExif, file[1].OverwriteExif),
            !.OverrideOriginal = MergeBool(cli.OverrideOriginal, file[1].OverrideOriginal),
            !.Verbose = MergeBool(cli.Verbose, file[1].Verbose),
            !.OutputDir = MergeString(cli.OutputDir, file[1].OutputDir)]

----------------------------------------------------------------------------
(* The calls of updateExifData, updateJPEGExif and UpdateVideoMetadata the  *)
(* model makes: on one file of any extension the program lists, holding a   *)
(* JPEG file, an MP4 file or neither, well-formed or not, or on a path      *)
(* with no file.                                                            *)

JpegPlain == <<255, markerSOI, 255, markerEOI>>

JpegBroken == <<255, markerSOI, 255, markerAPP1, 0>>

\* the file made of atoms of the given kinds, each in front of the rest
RECURSIVE Mp4From(_, _)
Mp4From(kinds, i) ==
    IF i > Len(kinds) THEN <<>> ELSE AtomInFront(kinds[i], Mp4From(kinds, i + 1))

Mp4Of(kinds) == Mp4From(kinds, 1)

FileContents ==
    {JpegPlain, TestJPEG, JpegBroken, <<0>>,
     Mp4Of(<<"ftyp", "moov", "mvhd">>), Mp4Of(<<"moov", "mvhd">>),
     Mp4Of(<<"ftyp", "ftyp1">>), Mp4Of(<<"ftyp">>), Mp4Of(<<"ftyp", "moov", "ftyp">>),
     Mp4Of(<<"ftyp", "moov", "mvhd2">>), Mp4Of(<<"ftyp", "moov", "mvhdShort">>)}

Extensions ==
    {".jpg", ".jpeg", ".JPG", ".png", ".gif", ".bmp", ".webp",
     ".mp4", ".MP4", ".mov", ".3gp", ".m4v", ".avi", ".mkv", ".flv"}

\* a file name of the first default pattern, IMG-<8 digits>-WA...
ImgStem(digits) == Stem("IMG", digits, <<>>, "")

\* 2025-01-22 00:00:00 UTC
PatchDate ==
    [year |-> 2025, month |-> 1, day |-> 22, hour |-> 0, minute |-> 0, second |-> 0,
     unix |-> Int64(1737504000)]

Cfg(updateModified, overwriteExif, overrideOriginal, outputDir, inputDir, dryRun) ==
    [UpdateModified |-> updateModified, OverwriteExif |-> overwriteExif,
     OverrideOriginal |-> overrideOriginal, OutputDir |-> outputDir,
     InputDir |-> inputDir, DryRun |-> dryRun]

\* a world with one file (or none, when there is no content)
WorldWith(path, contents) ==
    [files |-> [f \in {FileOf(path)} |-> [data |-> contents[1], times |-> "original"]],
     dirs |-> {path.dir},
     ops |-> <<>>]

EmptyWorld(dir) == [files |-> <<>>, dirs |-> {dir}, ops |-> <<>>]

UInit ==
    /\ \E ext \in Extensions :
           target = Path("photos", ImgStem(<<2, 0, 2, 5, 0, 1, 2, 2>>), 0, ext, FALSE)
    /\ \/ \E data \in FileContents : world = WorldWith(target, <<data>>)
       \/ world = EmptyWorld("photos")
    /\ \E ow \in BOOLEAN, dry \in BOOLEAN : config = Cfg(FALSE, ow, FALSE, "", "photos", dry)
    /\ outcome = <<>> /\ fpc = "ready"
    /\ jdata = <<>> /\ jchunks = 0 /\ jlog = <<>> /\ jpc = "idle"
    /\ segsIn = <<>> /\ imgIn = <<>> /\ rout = <<>> /\ rpc = "idle"
    /\ mdata = <<>> /\ matoms = 0 /\ mlog = <<>> /\ mpc = "idle"
    /\ unixTime = <<>> /\ qtTime = <<>> /\ backToUnix = <<>> /\ qpc = "idle"
    /\ payloadLen = 0 /\ lengthField = 0 /\ lpc = "idle"
    /\ dateTime = <<>> /\ exifOut = <<>> /\ epc = "idle"
    /\ fileConfig = <<>> /\ cliConfig = <<>> /\ merged = <<>> /\ cpc = "idle"
    /\ asegs = <<>> /\ ares = <<>> /\ apc = "idle"

\* the call returned (or panicked): the world is what the call left
Returned(call, res) ==
    /\ outcome' = [call |-> call, before |-> world, err |-> res.err, panic |-> res.panic]
    /\ world' = res.w
    /\ fpc' = "done"
    /\ UNCHANGED <<config, target, jvars, rvars, mvars, qvars, lvars, evars, cvars, avars>>

DoUpdateExifData(how, spare) ==
    /\ fpc = "ready"
    /\ Returned("updateExifData", updateExifData(world, target, PatchDate, config, how, spare))

DoUpdateJPEGExif(how) ==
    /\ fpc = "ready"
    /\ Returned("updateJPEGExif", updateJPEGExif(world, target, PatchDate, config, how))

DoUpdateVideoMetadata(how, spare) ==
    /\ fpc = "ready"
    /\ Returned("UpdateVideoMetadata",
                UpdateVideoMetadataOnFile(world, target, PatchDate, how, spare))

UNext ==
    \/ \E how \in WriteOutcomes, spare \in SpareCapacities : DoUpdateExifData(how, spare)
    \/ \E how \in WriteOutcomes : DoUpdateJPEGExif(how)
    \/ \E how \in WriteOutcomes, spare \in SpareCapacities : DoUpdateVideoMetadata(how, spare)

----------------------------------------------------------------------------
(* The calls of ProcessFile the model makes: on one file in photos or in    *)
(* photos/sub, spelled with or without a leading "./", whose name carries   *)
(* a date, an impossible date or none, under every combination of the       *)
(* options, with no output directory, the input directory, the file's own   *)
(* directory or another one as the output directory.  A copy succeeds       *)
(* whenever its source can be read.                                         *)

FileDirs == {"photos", "photos/sub"}

FileStems ==
    {ImgStem(<<2, 0, 2, 5, 0, 1, 2, 2>>),
     Stem("VID", <<2, 0, 2, 4, 0, 2, 2, 9>>, <<>>, ""),
     ImgStem(<<2, 0, 2, 5, 0, 2, 3, 0>>),
     Stem("other", <<>>, <<>>, "")}

\* names of the two patterns with a time: 10.04.05 PM and 12.30.00 AM on
\* 2025-01-22, a month 13 and day 45, and an hour 13; they are processed in
\* the directory "photos"
TimedStems ==
    {Stem("WhatsApp Image", <<2, 0, 2, 5, 0, 1, 2, 2>>, <<1, 0, 0, 4, 0, 5>>, "PM"),
     Stem("WhatsApp Image", <<2, 0, 2, 5, 0, 1, 2, 2>>, <<1, 2, 3, 0, 0, 0>>, "AM"),
     Stem("WhatsApp Image", <<2, 0, 2, 5, 1, 3, 4, 5>>, <<9, 0, 4, 0, 5>>, "AM"),
     Stem("WhatsApp Video", <<2, 0, 2, 5, 0, 1, 2, 2>>, <<1, 3, 0, 4, 0, 5>>, "PM")}

ProcessExts == {".jpg", ".mp4", ".png"}

ProcessContents ==
    {JpegPlain, TestJPEG,
     Mp4Of(<<"ftyp", "moov", "mvhd">>), Mp4Of(<<"ftyp", "moov", "mvhd2">>)}

OutputDirs == {"", "photos", "photos/sub", "out"}

InputDirs == {".", "photos"}

Configs ==
    {Cfg(m, ow, o, out, in, dry) :
        m \in BOOLEAN, ow \in BOOLEAN, o \in BOOLEAN,
        out \in OutputDirs, in \in InputDirs, dry \in BOOLEAN}

PInit ==
    /\ \/ \E dir \in FileDirs, stem \in FileStems, ext \in ProcessExts, dot \in BOOLEAN :
              target = Path(dir, stem, 0, ext, dot)
       \/ \E stem \in TimedStems, ext \in ProcessExts :
              target = Path("photos", stem, 0, ext, FALSE)
    /\ \/ \E data \in ProcessContents :
              world = [WorldWith(target, <<data>>) EXCEPT !.dirs = {"."} \cup FileDirs]
       \/ world = [EmptyWorld(".") EXCEPT !.dirs = {"."} \cup FileDirs]
    /\ config \in Configs
    /\ outcome = <<>> /\ fpc = "ready"
    /\ jdata = <<>> /\ jchunks = 0 /\ jlog = <<>> /\ jpc = "idle"
    /\ segsIn = <<>> /\ imgIn = <<>> /\ rout = <<>> /\ rpc = "idle"
    /\ mdata = <<>> /\ matoms = 0 /\ mlog = <<>> /\ mpc = "idle"
    /\ unixTime = <<>> /\ qtTime = <<>> /\ backToUnix = <<>> /\ qpc = "idle"
    /\ payloadLen = 0 /\ lengthField = 0 /\ lpc = "idle"
    /\ dateTime = <<>> /\ exifOut = <<>> /\ epc = "idle"
    /\ fileConfig = <<>> /\ cliConfig = <<>> /\ merged = <<>> /\ cpc = "idle"
    /\ asegs = <<>> /\ ares = <<>> /\ apc = "idle"

\* ProcessFile returned (or panicked)
Processed(res) ==
    /\ outcome' = [call |-> "ProcessFile", before |-> world, err |-> res.err,
                   panic |-> res.panic, OutputFile |-> res.OutputFile,
                   Success |-> res.Success]
    /\ world' = res.w
    /\ fpc' = "done"
    /\ UNCHANGED <<config, target, jvars, rvars, mvars, qvars, lvars, evars, cvars, avars>>

DoProcessFile(how, spare, mk) ==
    /\ fpc = "ready"
    /\ Processed(ProcessFile(world, target, config, how, spare, mk))

\* updateExifData called on the file itself, with the date of its name
DoUpdateExifDataOnInput(how, spare) ==
    /\ fpc = "ready"
    /\ parseISODateTime(ExtractDateFromFilename(target.stem)).err = ""
    /\ Returned("updateExifData",
                updateExifData(world, target,
                               parseISODateTime(ExtractDateFromFilename(target.stem)).t,
                               config, how, spare))

PNext ==
    \/ \E how \in WriteOutcomes, spare \in SpareCapacities, mk \in MkdirOutcomes :
           DoProcessFile(how, spare, mk)
    \/ \E how \in WriteOutcomes, spare \in SpareCapacities : DoUpdateExifDataOnInput(how, spare)

----------------------------------------------------------------------------
(* The calls of MergeConfig the model makes: every command-line             *)
(* configuration, merged with no config file or with a config file that     *)
(* sets, clears or leaves out each option.                                  *)

\* nil, a pointer to false, a pointer to true
BoolPointers == {<<>>, <<FALSE>>, <<TRUE>>}

ConfigFiles ==
    [UpdateModified : BoolPointers, OverwriteExif : BoolPointers,
     OverrideOriginal : BoolPointers, OutputDir : {"", "out", "photos"},
     Verbose : BoolPointers]

CliConfigs ==
    [UpdateModified : BOOLEAN, OverwriteExif : BOOLEAN, OverrideOriginal : BOOLEAN,
     OutputDir : {"", "out", "cli"}, InputDir : InputDirs, Verbose : BOOLEAN,
     DryRun : BOOLEAN]

CInit ==
    /\ fileConfig \in {<<>>} \cup {<<file>> : file \in ConfigFiles}
    /\ cliConfig \in CliConfigs
    /\ merged = <<>> /\ cpc = "input"
    /\ jdata = <<>> /\ jchunks = 0 /\ jlog = <<>> /\ jpc = "idle"
    /\ segsIn = <<>> /\ imgIn = <<>> /\ rout = <<>> /\ rpc = "idle"
    /\ mdata = <<>> /\ matoms = 0 /\ mlog = <<>> /\ mpc = "idle"
    /\ unixTime = <<>> /\ qtTime = <<>> /\ backToUnix = <<>> /\ qpc = "idle"
    /\ payloadLen = 0 /\ lengthField = 0 /\ lpc = "idle"
    /\ dateTime = <<>> /\ exifOut = <<>> /\ epc = "idle"
    /\ world = <<>> /\ config = <<>> /\ target = <<>> /\ outcome = <<>> /\ fpc = "idle"
    /\ asegs = <<>> /\ ares = <<>> /\ apc = "idle"

DoMergeConfig ==
    /\ cpc = "input"
    /\ merged' = MergeConfig(fileConfig, cliConfig)
    /\ cpc' = "merged"
    /\ UNCHANGED <<fileConfig, cliConfig, jvars, rvars, mvars, qvars, lvars, evars, fvars, avars>>

CNext == DoMergeConfig

----------------------------------------------------------------------------
(* The calls of FindAPP1Segment the model makes: on every list of up to     *)
(* MaxFindSegs segments that are EXIF APP1 segments, APP1 segments without   *)
(* the identifier or with a part of it, or other segments that carry it.    *)

FindSegments ==
    {JPEGSegment(markerAPP1, 8, ExifId),
     JPEGSegment(markerAPP1, 9, ExifId \o Junk),
     JPEGSegment(markerAPP1, 3, Junk),
     JPEGSegment(markerAPP1, 7, SubSeq(ExifId, 1, 5)),
     JPEGSegment(markerAPP0, 8, ExifId),
     JPEGSegment(markerAPP0, 2, <<>>)}

AInit ==
    /\ asegs = <<>> /\ ares = <<>> /\ apc = "input"
    /\ jdata = <<>> /\ jchunks = 0 /\ jlog = <<>> /\ jpc = "idle"
    /\ segsIn = <<>> /\ imgIn = <<>> /\ rout = <<>> /\ rpc = "idle"
    /\ mdata = <<>> /\ matoms = 0 /\ mlog = <<>> /\ mpc = "idle"
    /\ unixTime = <<>> /\ qtTime = <<>> /\ backToUnix = <<>> /\ qpc = "idle"
    /\ payloadLen = 0 /\ lengthField = 0 /\ lpc = "idle"
    /\ dateTime = <<>> /\ exifOut = <<>> /\ epc = "idle"
    /\ world = <<>> /\ config = <<>> /\ target = <<>> /\ outcome = <<>> /\ fpc = "idle"
    /\ fileConfig = <<>> /\ cliConfig = <<>> /\ merged = <<>> /\ cpc = "idle"

AddFindSegment(seg) ==
    /\ apc = "input"
    /\ Len(asegs) < MaxFindSegs
    /\ asegs' = Append(asegs, seg)
    /\ UNCHANGED <<ares, apc, jvars, rvars, mvars, qvars, lvars, evars, fvars, cvars>>

DoFindAPP1Segment ==
    /\ apc = "input"
    /\ ares' = FindAPP1Pair(asegs)
    /\ apc' = "found"
    /\ UNCHANGED <<asegs, jvars, rvars, mvars, qvars, lvars, evars, fvars, cvars>>

ANext ==
    \/ \E seg \in FindSegments : AddFindSegment(seg)
    \/ DoFindAPP1Segment

----------------------------------------------------------------------------
(* Specifications *)

SpecAPP1Length == LInit /\ [][LNext]_vars

SpecEXIF == EInit /\ [][ENext]_vars

SpecUpdate == UInit /\ [][UNext]_vars

SpecProcess == PInit /\ [][PNext]_vars

SpecConfig == CInit /\ [][CNext]_vars

SpecFindAPP1 == AInit /\ [][ANext]_vars

SpecQuickTime == QInit /\ [][QNext]_vars

SpecMP4 == MInit /\ [][MNext]_vars

SpecJPEG == JInit /\ [][JNext]_vars

SpecReassemble == RInit /\ [][RNext]_vars

----------------------------------------------------------------------------
(* Claims about the JPEG codec *)

WellFormedSegment(seg) ==
    /\ seg.Marker \notin {0, 255}
    /\ ~(seg.Marker = markerEOI \/ IsSOF(seg.Marker))
    /\ seg.Length = Len(seg.Payload) + 2

WellFormedSegments(segments) ==
    \A i \in 1..Len(segments) : WellFormedSegment(segments[i])

\* image data that is empty or begins with a Start-Of-Frame or End-Of-Image marker
StartsAtBoundary(imageData) ==
    \/ imageData = <<>>
    \/ /\ Len(imageData) >= 2
       /\ imageData[1] = 255
       /\ (imageData[2] = markerEOI \/ IsSOF(imageData[2]))

RECURSIVE SegmentBytes(_)
SegmentBytes(segments) ==
    IF segments = <<>> THEN 0
    ELSE 4 + Len(Head(segments).Payload) + SegmentBytes(Tail(segments))

\* what follows the serialized segments in rout: the image data, then EOI
\* exactly when the image data does not end with one
ImageDataPreserved ==
    LET n == 2 + SegmentBytes(segsIn) IN
    /\ Len(rout) >= n
    /\ SubSeq(rout, n + 1, Len(rout))
         = imgIn \o (IF HasSuffix(imgIn, <<255, markerEOI>>) THEN <<>> ELSE <<255, markerEOI>>)

ReparseGivesBack ==
    LET r == ParseJPEGSegments(rout) IN
    ~r.panic /\ r.err = "" /\ r.segments = segsIn

\* C1 as stated: for ANY segment sequence S and ANY image data D,
\* ParseJPEGSegments(ReassembleJPEG(S, D)) succeeds and returns exactly S, and
\* what follows the serialized segments is D, then EOI only if D lacks one.
C1_RoundTripAnyInput ==
    rpc = "reassembled" => ReparseGivesBack /\ ImageDataPreserved

\* C1 amended: the round trip holds for every sequence S of segments whose
\* marker is none of 0x00, 0xFF, EOI, SOF0..SOF3 and whose Length is
\* len(Payload)+2, and every image data D that is empty or begins with a
\* SOF0..SOF3 or EOI marker; the image data is preserved for any S and D.
C1_RoundTripWellFormed ==
    rpc = "reassembled" =>
        /\ ImageDataPreserved
        /\ (WellFormedSegments(segsIn) /\ StartsAtBoundary(imgIn) => ReparseGivesBack)

C1_Witness ==
    /\ rpc = "reassembled"
    /\ Len(segsIn) = 2
    /\ segsIn[2].Payload # <<>>
    /\ WellFormedSegments(segsIn)
    /\ Len(imgIn) = 3
    /\ StartsAtBoundary(imgIn)
    /\ ~HasSuffix(imgIn, <<255, markerEOI>>)

InsertEntry(e) == e.op = "insert" /\ ~e.res.panic /\ e.res.err = ""

ExifCount(segments) == Cardinality({i \in 1..Len(segments) : IsExif(segments[i])})

APP1Count(segments) ==
    Cardinality({i \in 1..Len(segments) : segments[i].Marker = markerAPP1})

\* C2: EXIF injection is idempotent.  After two successful InsertEXIFSegment
\* calls with the same payload P (the second on the output of the first), the
\* file's parsed segment list holds exactly one EXIF APP1 segment, its payload
\* is P, and the second call added no APP1 segment.  Stated for a payload that
\* carries the EXIF identifier and an original file holding at most one EXIF
\* segment, where no reading of the claim allows a second one.
C2_InsertIdempotent ==
    (/\ Len(jlog) = 2
     /\ InsertEntry(jlog[1]) /\ InsertEntry(jlog[2])
     /\ jlog[1].payload = jlog[2].payload
     /\ Len(jlog[1].payload) >= 6 /\ SubSeq(jlog[1].payload, 1, 6) = ExifId
     /\ ExifCount(ParseJPEGSegments(jlog[1].in).segments) <= 1)
    => LET first == ParseJPEGSegments(jlog[1].res.out).segments
           second == ParseJPEGSegments(jdata).segments IN
       /\ ExifCount(second) = 1
       /\ \A i \in 1..Len(second) : IsExif(second[i]) => second[i].Payload = jlog[2].payload
       /\ APP1Count(second) = APP1Count(first)

\* the offset at which ParseJPEGSegments stopped collecting segments: the
\* SOF0..SOF3 or EOI marker it stopped at, or the end of the buffer
ParseBoundary(data) ==
    IF ParseJPEGSegments(data).pos < Len(data) - 1
    THEN ParseJPEGSegments(data).pos
    ELSE Len(data)

\* C21: for every input on which InsertEXIFSegment succeeds, the offset its
\* raw re-scan finds (segmentsEnd) is the offset at which ParseJPEGSegments
\* stopped collecting segments, so the output is SOI, the new segment list
\* and the input bytes from that offset on.
C21_BoundariesAgree ==
    \A i \in 1..Len(jlog) :
        InsertEntry(jlog[i]) =>
            /\ jlog[i].res.segmentsEnd = ParseBoundary(jlog[i].in)
            /\ jlog[i].res.out =
                   ReassembleJPEG(jlog[i].res.segments,
                                  Slice(jlog[i].in, ParseBoundary(jlog[i].in), Len(jlog[i].in)))

\* an insert on a file without SOF or EOI marker: the parse collected a
\* segment up to the end of the buffer, the re-scan reports offset 2
C21_NoStopMarker ==
    /\ Len(jlog) >= 1 /\ InsertEntry(jlog[1])
    /\ jlog[1].in = <<255, markerSOI>> \o SegmentChunk(markerAPP0, 2, <<>>)
    /\ jlog[1].res.segmentsEnd = 2
    /\ ParseBoundary(jlog[1].in) = 6

\* an insert on a file with a fill byte before its first segment: the parse
\* stopped at the SOF marker, the re-scan reports offset 2
C21_FillByte ==
    /\ Len(jlog) >= 1 /\ InsertEntry(jlog[1])
    /\ jlog[1].in = <<255, markerSOI, 255>> \o SegmentChunk(markerAPP0, 2, <<>>)
                        \o <<255, markerSOF0>>
    /\ jlog[1].res.segmentsEnd = 2
    /\ ParseBoundary(jlog[1].in) = 7

\* C7: no call of ParseJPEGSegments or InsertEXIFSegment reads or slices
\* outside its input buffer: each returns a result or an error value.
C7_JPEGNeverFaults ==
    \A i \in 1..Len(jlog) : ~jlog[i].res.panic

\* an insert on a file with fill and stuffed bytes whose re-scan ran off the end
C7_Witness ==
    /\ Len(jlog) >= 1
    /\ InsertEntry(jlog[1])
    /\ Len(jlog[1].in) > 4
    /\ jlog[1].res.segmentsEnd = 2
    /\ \E k \in 1..(Len(jlog[1].in) - 1) : jlog[1].in[k] = 255 /\ jlog[1].in[k + 1] = 255

\* C9: ParseJPEGSegments returns an error, and no segment list, for every
\* input shorter than 2 bytes and every input not starting with 0xFF 0xD8.
C9_ParseRejectsMissingSOI ==
    \A i \in 1..Len(jlog) :
        (jlog[i].op = "parse" /\ ~HasSOI(jlog[i].in))
            => jlog[i].res.err # "" /\ jlog[i].res.segments = <<>>

C9_Witness ==
    /\ Len(jlog) = 1
    /\ jlog[1].op = "parse"
    /\ jlog[1].in = <<255, 255>>
    /\ jlog[1].res.err # ""

\* C10: ParseJPEGSegments stops collecting at the first SOF0..SOF3 or EOI
\* marker it reaches, without consuming it: no returned segment has such a
\* marker, the segments' bytes all lie before the offset at which the scan
\* stopped, and the file of TestParseJPEGSegments yields exactly its one APP1
\* segment of length 16 with a 14-byte payload, the scan stopping at 0xFFC0.
C10_ParseStopsAtSOFOrEOI ==
    \A i \in 1..Len(jlog) :
        jlog[i].op = "parse" =>
            LET r == jlog[i].res IN
            /\ \A k \in 1..Len(r.segments) :
                   r.segments[k].Marker # markerEOI /\ ~IsSOF(r.segments[k].Marker)
            /\ r.err = "" => 2 + SegmentBytes(r.segments) <= r.pos
            /\ jlog[i].in = TestJPEG =>
                   /\ r.err = ""
                   /\ r.segments = <<JPEGSegment(markerAPP1, 16,
                                                 ExifId \o <<73, 73, 42, 0, 8, 0, 0, 0>>)>>
                   /\ Len(r.segments[1].Payload) = 14
                   /\ r.pos = 20

C10_Witness ==
    /\ Len(jlog) = 1
    /\ jlog[1].op = "parse"
    /\ jlog[1].in = TestJPEG
    /\ Len(jlog[1].res.segments) = 1

\* the offset of the first marker at or after pos: 0xFF followed by a byte
\* that is neither 0xFF nor 0x00; -1 when there is none
NextMarker(data, pos) ==
    LET at == {p \in pos..(Len(data) - 2) : B(data, p) = 255 /\ B(data, p + 1) \notin {0, 255}} IN
    IF at = {} THEN -1 ELSE CHOOSE p \in at : \A q \in at : p <= q

\* the segments of a file from pos on, by their marker offsets, up to the
\* first SOF0..SOF3 or EOI marker; bad when a segment's length field is cut
\* off or below 2, or its payload would end past the buffer
RECURSIVE SegmentWalk(_, _, _)
SegmentWalk(data, pos, starts) ==
    LET m == NextMarker(data, pos) IN
    IF m < 0 THEN [starts |-> starts, bad |-> FALSE]
    ELSE IF B(data, m + 1) = markerEOI \/ IsSOF(B(data, m + 1))
    THEN [starts |-> starts, bad |-> FALSE]
    ELSE IF m + 4 > Len(data) THEN [starts |-> starts, bad |-> TRUE]
    ELSE IF B(data, m + 2) * 256 + B(data, m + 3) < 2
            \/ m + 2 + B(data, m + 2) * 256 + B(data, m + 3) > Len(data)
    THEN [starts |-> starts, bad |-> TRUE]
    ELSE SegmentWalk(data, m + 2 + B(data, m + 2) * 256 + B(data, m + 3), Append(starts, m))

\* the segment is the one whose marker is at offset m of the file
SegmentAt(segment, data, m) ==
    /\ segment.Marker = B(data, m + 1)
    /\ segment.Marker \notin {0, 255}
    /\ segment.Length = B(data, m + 2) * 256 + B(data, m + 3)
    /\ segment.Length >= 2
    /\ Len(segment.Payload) = segment.Length - 2
    /\ m + 2 + segment.Length <= Len(data)
    /\ segment.Payload = SubSeq(data, m + 5, m + 2 + segment.Length)

\* C25: every segment ParseJPEGSegments returns has Length >= 2,
\* Length - 2 bytes of payload, a marker byte that is neither 0x00 nor 0xFF,
\* and a payload that is a copy of input bytes inside the buffer; an input
\* in which a segment's length field is below 2 or cut off, or whose payload
\* would end past the buffer, is rejected with an error and no segments.
C25_SegmentsWellFormed ==
    \A i \in 1..Len(jlog) :
        (jlog[i].op = "parse" /\ HasSOI(jlog[i].in)) =>
            /\ ~jlog[i].res.panic
            /\ SegmentWalk(jlog[i].in, 2, <<>>).bad =>
                   jlog[i].res.err # "" /\ jlog[i].res.segments = <<>>
            /\ ~SegmentWalk(jlog[i].in, 2, <<>>).bad =>
                   /\ jlog[i].res.err = ""
                   /\ Len(jlog[i].res.segments) = Len(SegmentWalk(jlog[i].in, 2, <<>>).starts)
                   /\ \A k \in 1..Len(jlog[i].res.segments) :
                          SegmentAt(jlog[i].res.segments[k], jlog[i].in,
                                    SegmentWalk(jlog[i].in, 2, <<>>).starts[k])

\* a parse that returned two segments, the first behind a fill byte
C25_Witness ==
    /\ Len(jlog) = 1
    /\ jlog[1].op = "parse"
    /\ jlog[1].in = <<255, markerSOI, 255>> \o SegmentChunk(markerAPP1, 3, Junk)
                        \o SegmentChunk(markerAPP0, 2, <<>>)
    /\ jlog[1].res.err = ""
    /\ Len(jlog[1].res.segments) = 2
    /\ jlog[1].res.segments[1].Payload = Junk

\* a parse that rejected a file whose last segment runs past the buffer
C25_Rejected ==
    /\ Len(jlog) = 1
    /\ jlog[1].op = "parse"
    /\ jlog[1].in = <<255, markerSOI>> \o SegmentChunk(markerAPP0, 2, <<>>)
                        \o SegmentChunk(markerAPP0, 4, Junk)
    /\ jlog[1].res.err = "invalid JPEG: segment extends beyond file"
    /\ jlog[1].res.segments = <<>>

\* the segment is an APP1 segment whose payload starts with "Exif\0\0"
StartsWithExif(segment) ==
    /\ segment.Marker = markerAPP1
    /\ Len(segment.Payload) >= 6
    /\ SubSeq(segment.Payload, 1, 6) = ExifId

\* the index (from 1) of the first EXIF segment of a list, 0 when it has none
FirstExif(segments) ==
    IF \E i \in 1..Len(segments) : StartsWithExif(segments[i])
    THEN CHOOSE i \in 1..Len(segments) :
             /\ StartsWithExif(segments[i])
             /\ \A j \in 1..(i - 1) : ~StartsWithExif(segments[j])
    ELSE 0

\* C11: the segment list InsertEXIFSegment reassembles is the parsed list
\* with the first EXIF segment replaced by the new APP1 segment when there is
\* one, and otherwise the new APP1 segment followed by the parsed list; every
\* other segment keeps its place, marker, length and payload.
C11_NewSegmentPlaced ==
    \A k \in 1..Len(jlog) :
        InsertEntry(jlog[k]) =>
            LET parsed == ParseJPEGSegments(jlog[k].in).segments
                new == jlog[k].res.segments
                i == FirstExif(parsed) IN
            IF i > 0
            THEN /\ Len(new) = Len(parsed)
                 /\ new[i].Marker = markerAPP1
                 /\ new[i].Payload = jlog[k].payload
                 /\ \A j \in 1..Len(parsed) : j # i => new[j] = parsed[j]
            ELSE /\ Len(new) = Len(parsed) + 1
                 /\ new[1].Marker = markerAPP1
                 /\ new[1].Payload = jlog[k].payload
                 /\ \A j \in 1..Len(parsed) : new[j + 1] = parsed[j]

\* an insert that replaced an EXIF segment standing behind another segment
\* by a segment with a different payload
C11_Witness ==
    /\ Len(jlog) = 1
    /\ InsertEntry(jlog[1])
    /\ FirstExif(ParseJPEGSegments(jlog[1].in).segments) >= 2
    /\ jlog[1].res.segments[1] = ParseJPEGSegments(jlog[1].in).segments[1]
    /\ jlog[1].res.segments[2].Payload = ExifId \o Junk

\* C12: the length field of the new APP1 segment is len(P) + 2 for every
\* payload P, whatever its length.
C12_LengthFieldIsPayloadPlusTwo ==
    lpc = "built" => lengthField = payloadLen + 2

----------------------------------------------------------------------------
(* Claims about the QuickTime time conversion *)

\* -2082844800 and 2212122495: the timestamps whose QuickTime value is 0 and
\* 2^32 - 1
MinQuickTimeUnix == <<255, 255, 255, 255, 131, 218, 79, 128>>

MaxQuickTimeUnix == <<0, 0, 0, 0, 131, 218, 79, 127>>

InQuickTimeRange(t) == ~Less64(t, MinQuickTimeUnix) /\ ~Less64(MaxQuickTimeUnix, t)

\* C5 as stated: QuickTimeToUnix(UnixToQuickTime(t)) = t for every int64
\* timestamp t.
C5_RoundTripAllTimestamps ==
    qpc = "back" => backToUnix = unixTime

\* C5, amended: QuickTimeToUnix(UnixToQuickTime(t)) = t exactly for the
\* timestamps t with -2082844800 <= t <= 2212122495, the ones whose QuickTime
\* value fits 32 bits; for every other t the round trip gives back a
\* different timestamp, one inside that range.
C5_RoundTripInRange ==
    qpc = "back" =>
        /\ (backToUnix = unixTime) <=> InQuickTimeRange(unixTime)
        /\ InQuickTimeRange(backToUnix)

C5_Witness ==
    /\ qpc = "back"
    /\ unixTime = MaxQuickTimeUnix
    /\ qtTime = <<255, 255, 255, 255>>
    /\ backToUnix = unixTime

----------------------------------------------------------------------------
(* Claims about the MP4 parser and patcher *)

ParseEntries == {i \in DOMAIN mlog : mlog[i].op = "parse"}

UpdateEntries == {i \in DOMAIN mlog : mlog[i].op = "update"}

\* the size field of the header at offset pos, as declared
DeclaredSize(data, pos) == Uint32(Slice(data, pos, pos + 4))

\* the declared size at pos is 1, or exceeds the bytes from pos to the end
BadTopLevelSize(data, pos) ==
    LET declared == DeclaredSize(data, pos) IN
    declared = 1 \/ Huge(declared) \/ declared > Len(data) - pos

\* the offsets at which top-level atoms start, following the declared sizes
RECURSIVE TopLevelStarts(_, _)
TopLevelStarts(data, pos) ==
    IF pos + 8 > Len(data) THEN {}
    ELSE IF BadTopLevelSize(data, pos) \/ DeclaredSize(data, pos) = 0 THEN {pos}
    ELSE {pos} \cup TopLevelStarts(data, pos + DeclaredSize(data, pos))

\* C8: ParseMP4Atoms returns an error and no atoms when the buffer is empty
\* or shorter than 8 bytes, when a top-level atom declares size 1, and when a
\* top-level atom declares more bytes than remain from its start.
C8_ParseRejectsBadTopLevel ==
    \A i \in ParseEntries :
        LET data == mlog[i].in IN
        (Len(data) < 8 \/ \E pos \in TopLevelStarts(data, 0) : BadTopLevelSize(data, pos))
        => mlog[i].res.err # "" /\ mlog[i].res.atoms = <<>>

\* a parse that failed at the second top-level atom, on a declared size of 1
C8_Witness ==
    \E i \in ParseEntries :
        LET data == mlog[i].in IN
        /\ Len(data) >= 16
        /\ DeclaredSize(data, 0) = 8
        /\ DeclaredSize(data, 8) = 1
        /\ mlog[i].res.err = "extended size atoms not yet supported"
        /\ mlog[i].res.atoms = <<>>

\* The mvhd atom of a file, as the tree gives it
TreeMvhd(data) ==
    FindAtomRecursive(FindAtom(ParseMP4Atoms(data).atoms, Moov).atom, Mvhd).atom

\* The file begins with an ftyp atom and holds a moov atom with an mvhd atom
\* of version 0 whose two timestamp fields are inside the atom; no atom
\* declares a size below 8.
HasVersion0Mvhd(data) ==
    /\ Len(data) >= 8
    /\ Slice(data, 4, 8) = Ftyp
    /\ ParseMP4Atoms(data).err = ""
    /\ ~ParseMP4Atoms(data).wrapped
    /\ FindAtom(ParseMP4Atoms(data).atoms, Moov).found
    /\ FindAtomRecursive(FindAtom(ParseMP4Atoms(data).atoms, Moov).atom, Mvhd).found
    /\ TreeMvhd(data).Off >= 0
    /\ TreeMvhd(data).DataLen >= 12
    /\ TreeMvhd(data).Data[1] = 0

\* t + 2082844800 is in 0 .. 2^32 - 1
FitsUint32(t) == SubSeq(Add64(t, Int64(quickTimeEpochOffset)), 1, 4) = <<0, 0, 0, 0>>

\* t + 2082844800 as 4 big-endian bytes
QuickTimeSeconds(t) == SubSeq(Add64(t, Int64(quickTimeEpochOffset)), 5, 8)

\* C3: for a file that begins with ftyp and holds a moov atom with a
\* version-0 mvhd atom, and a timestamp t, the patch yields a buffer whose
\* 32-bit values at offsets 4 and 8 of the mvhd body both are t + 2082844800.
C3_PatchWritesBothFields ==
    \A i \in UpdateEntries :
        LET e == mlog[i]
            body == TreeMvhd(e.in).Off + 8 IN
        (HasVersion0Mvhd(e.in) /\ FitsUint32(e.t)) =>
            /\ e.res.err = "" /\ ~e.res.panic
            /\ Slice(e.res.out, body + 4, body + 8) = QuickTimeSeconds(e.t)
            /\ Slice(e.res.out, body + 8, body + 12) = QuickTimeSeconds(e.t)

\* offset k lies in the timestamp fields of the atom at off and inside the
\* size that atom declares
InTimestampFields(k, off, size, version) ==
    /\ k >= off + 12
    /\ k < off + 12 + (IF version = 1 THEN 16 ELSE 8)
    /\ k < off + size

\* C4: a buffer returned by the patch has the length of the input and
\* differs from it only inside the creation-time and modification-time
\* fields of the mvhd atom, never outside the size that atom declares (the
\* atom being the one the tree gave or the one the patch located).
C4_PatchChangesOnlyTimestamps ==
    \A i \in UpdateEntries :
        LET e == mlog[i]
            tree == e.res.mvhdAtom
            pos == e.res.mvhdPos
            declared == IF DeclaredSize(e.in, pos) = 0 THEN Len(e.in) - pos
                        ELSE DeclaredSize(e.in, pos) IN
        (e.res.err = "" /\ ~e.res.panic) =>
            /\ Len(e.res.out) = Len(e.in)
            /\ \A k \in 0..(Len(e.in) - 1) :
                   B(e.res.out, k) # B(e.in, k) =>
                       \/ InTimestampFields(k, tree.Off, tree.Size, Version(tree))
                       \/ InTimestampFields(k, pos, declared, Version(tree))

\* C6: no step of the MP4 pipeline slices past the end of a buffer or
\* allocates a buffer of the wrapped length size - 8 of a size below 8.
C6_MP4NeverFaults ==
    \A i \in DOMAIN mlog :
        /\ ~mlog[i].res.wrapped
        /\ mlog[i].op = "update" => ~mlog[i].res.panic

\* The file begins with an ftyp atom and holds a moov atom with an mvhd atom
\* of version 1 whose two timestamp fields are inside the atom; no atom
\* declares a size below 8.
HasVersion1Mvhd(data) ==
    /\ Len(data) >= 8
    /\ Slice(data, 4, 8) = Ftyp
    /\ ParseMP4Atoms(data).err = ""
    /\ ~ParseMP4Atoms(data).wrapped
    /\ FindAtom(ParseMP4Atoms(data).atoms, Moov).found
    /\ FindAtomRecursive(FindAtom(ParseMP4Atoms(data).atoms, Moov).atom, Mvhd).found
    /\ TreeMvhd(data).Off >= 0
    /\ TreeMvhd(data).DataLen >= 20
    /\ TreeMvhd(data).Data[1] = 1

\* C13: when the patch of a version-1 mvhd atom returns a buffer (and it
\* located the atom the tree gave), the 64-bit values at offsets 4 and 12 of
\* the mvhd body both are t + 2082844800, not reduced modulo 2^32.
C13_Version1WritesFullValue ==
    \A i \in UpdateEntries :
        LET e == mlog[i]
            body == TreeMvhd(e.in).Off + 8 IN
        (/\ HasVersion1Mvhd(e.in)
         /\ e.res.err = "" /\ ~e.res.panic
         /\ e.res.mvhdPos = TreeMvhd(e.in).Off) =>
            /\ Slice(e.res.out, body + 4, body + 12) = Add64(e.t, Int64(quickTimeEpochOffset))
            /\ Slice(e.res.out, body + 12, body + 20) = Add64(e.t, Int64(quickTimeEpochOffset))

\* the file begins with an ftyp atom, parses, and its first top-level moov
\* atom has an mvhd atom in its subtree
TreeHasMvhd(data) ==
    /\ Len(data) >= 8
    /\ Slice(data, 4, 8) = Ftyp
    /\ ParseMP4Atoms(data).err = ""
    /\ FindAtom(ParseMP4Atoms(data).atoms, Moov).found
    /\ FindAtomRecursive(FindAtom(ParseMP4Atoms(data).atoms, Moov).atom, Mvhd).found

\* C22: whenever the tree holds a top-level moov atom with an mvhd atom in
\* its subtree, findAtomPosition(data, "mvhd") succeeds and returns the
\* offset in the buffer of that same atom.
C22_ScanFindsTreeAtom ==
    \A i \in UpdateEntries :
        TreeHasMvhd(mlog[i].in) =>
            /\ ~mlog[i].res.panic
            /\ mlog[i].res.err # "failed to find mvhd position"
            /\ mlog[i].res.mvhdPos = TreeMvhd(mlog[i].in).Off

\* a moov atom declared with size 0: the tree holds its mvhd, the scan
\* stops at the moov header and finds nothing
C22_Size0MoovNotFound ==
    \E i \in UpdateEntries :
        /\ mlog[i].in = Mp4Of(<<"ftyp", "moov0", "mvhd">>)
        /\ TreeHasMvhd(mlog[i].in)
        /\ TreeMvhd(mlog[i].in).Off = 16
        /\ mlog[i].res.err = "failed to find mvhd position"

\* an mvhd atom in front of moov: the tree gives the one inside moov, the
\* scan the one in front, and the patch is written there
C22_OtherMvhdPatched ==
    \E i \in UpdateEntries :
        /\ mlog[i].in = Mp4Of(<<"ftyp", "mvhd", "moov", "mvhd">>)
        /\ TreeHasMvhd(mlog[i].in)
        /\ TreeMvhd(mlog[i].in).Off = 36
        /\ mlog[i].res.err = "" /\ ~mlog[i].res.panic
        /\ mlog[i].res.mvhdPos = 8

\* the atoms of a list, laid out in data[lo..hi): each starts where the one
\* before it ends (the first at lo), has Size >= 8 and Size - 8 bytes of
\* Data, which are the bytes of data after its header; an atom declared with
\* size 0 runs to hi and is the last; and so for the children inside each
RECURSIVE LaidOut(_, _, _, _)
LaidOut(data, atoms, lo, hi) ==
    \A k \in 1..Len(atoms) :
        /\ atoms[k].Off = IF k = 1 THEN lo ELSE atoms[k - 1].Off + atoms[k - 1].Size
        /\ atoms[k].Size >= 8
        /\ atoms[k].DataLen = atoms[k].Size - 8
        /\ Len(atoms[k].Data) = atoms[k].DataLen
        /\ atoms[k].Off + atoms[k].Size <= hi
        /\ atoms[k].Data = Slice(data, atoms[k].Off + 8, atoms[k].Off + atoms[k].Size)
        /\ DeclaredSize(data, atoms[k].Off) = 0 =>
               atoms[k].Off + atoms[k].Size = hi /\ k = Len(atoms)
        /\ LaidOut(data, atoms[k].Children, atoms[k].Off + 8, atoms[k].Off + atoms[k].Size)

\* C23: every atom ParseMP4Atoms returns, at any depth, has Size >= 8,
\* len(Data) = Size - 8 and Data equal to the input bytes from its offset + 8
\* to its offset + Size; top-level atoms lie back to back from offset 0; an
\* atom declared with size 0 gets the bytes remaining in its enclosing
\* buffer and is the last atom of that buffer.
C23_AtomSizeInvariant ==
    \A i \in ParseEntries :
        mlog[i].res.err = "" =>
            LaidOut(mlog[i].in, mlog[i].res.atoms, 0, Len(mlog[i].in))

\* a parse that returned an atom of Size 4, declared so in its header
C23_SizeBelowEight ==
    \E i \in ParseEntries :
        /\ mlog[i].in = Mp4Of(<<"ftyp4">>)
        /\ mlog[i].res.err = ""
        /\ mlog[i].res.atoms[1].Size = 4

\* a parse of a well-formed file with a size-0 container whose atoms are laid out
C23_LaidOutReached ==
    \E i \in ParseEntries :
        /\ mlog[i].in = Mp4Of(<<"ftyp", "moov0", "mvhd">>)
        /\ mlog[i].res.err = ""
        /\ Len(mlog[i].res.atoms) = 2
        /\ mlog[i].res.atoms[2].Size = 28
        /\ LaidOut(mlog[i].in, mlog[i].res.atoms, 0, Len(mlog[i].in))

\* the offsets of the well-formed atoms of data[pos..hi) in front of the
\* first malformed one (declared size 1, or more than the bytes up to hi)
RECURSIVE ChildStarts(_, _, _)
ChildStarts(data, pos, hi) ==
    IF pos + 8 > hi THEN <<>>
    ELSE IF DeclaredSize(data, pos) = 1 \/ Huge(DeclaredSize(data, pos))
            \/ DeclaredSize(data, pos) > hi - pos
    THEN <<>>
    ELSE IF DeclaredSize(data, pos) = 0 THEN <<pos>>
    ELSE <<pos>> \o ChildStarts(data, pos + DeclaredSize(data, pos), hi)

\* every container among the atoms, at any depth, holds the well-formed
\* children in front of its first malformed child
RECURSIVE ChildrenTruncated(_, _)
ChildrenTruncated(data, atoms) ==
    \A k \in 1..Len(atoms) :
        (isContainerAtom(atoms[k].Type) /\ atoms[k].Off >= 0 /\ atoms[k].Size > 8) =>
            /\ [j \in 1..Len(atoms[k].Children) |-> atoms[k].Children[j].Off]
                   = ChildStarts(data, atoms[k].Off + 8, atoms[k].Off + atoms[k].Size)
            /\ ChildrenTruncated(data, atoms[k].Children)

TopLevelWellFormed(data) ==
    /\ Len(data) >= 8
    /\ \A pos \in TopLevelStarts(data, 0) : ~BadTopLevelSize(data, pos)

\* C24: a malformed child atom inside a container (declared size 1, or
\* more than the container body holds) never makes ParseMP4Atoms fail, and
\* the container's Children are the well-formed children in front of the
\* malformed one, in order.
C24_ChildrenTruncatedAtMalformed ==
    \A i \in ParseEntries :
        /\ TopLevelWellFormed(mlog[i].in) => mlog[i].res.err = ""
        /\ mlog[i].res.err = "" => ChildrenTruncated(mlog[i].in, mlog[i].res.atoms)

\* a moov atom holding mvhd and then a child declared with size 1: the
\* parse succeeds and moov has no children at all
C24_AllChildrenDropped ==
    \E i \in ParseEntries :
        /\ mlog[i].in = Mp4Of(<<"ftyp", "moov", "mvhd", "ftyp1">>)
        /\ mlog[i].res.err = ""
        /\ mlog[i].res.atoms[2].Type = Moov
        /\ mlog[i].res.atoms[2].Children = <<>>
        /\ ChildStarts(mlog[i].in, 16, 44) = <<16>>

\* a moov atom holding mvhd and then a child declared larger than the rest
\* of moov: the parse succeeds and moov keeps mvhd
C24_TruncatedAtOversized ==
    \E i \in ParseEntries :
        /\ mlog[i].in = Mp4Of(<<"ftyp", "moov", "mvhd", "trakOver">>)
        /\ mlog[i].res.err = ""
        /\ Len(mlog[i].res.atoms[2].Children) = 1
        /\ mlog[i].res.atoms[2].Children[1].Type = Mvhd

\* the atoms of one loop were read at strictly increasing positions, and so
\* were the children of each
RECURSIVE PositionsIncrease(_)
PositionsIncrease(atoms) ==
    /\ \A i \in 1..Len(atoms), j \in 1..Len(atoms) :
           (i < j /\ atoms[i].Off >= 0 /\ atoms[j].Off >= 0) => atoms[i].Off < atoms[j].Off
    /\ \A i \in 1..Len(atoms) : PositionsIncrease(atoms[i].Children)

\* the buffer of every recursive call (the Data of a container that is not
\* empty) is strictly shorter than the buffer of the loop that made the call
RECURSIVE RecursionShrinks(_, _)
RecursionShrinks(atoms, callerLen) ==
    \A i \in 1..Len(atoms) :
        (isContainerAtom(atoms[i].Type) /\ atoms[i].DataLen # 0) =>
            /\ ~Huge(atoms[i].DataLen)
            /\ atoms[i].DataLen < callerLen
            /\ RecursionShrinks(atoms[i].Children, atoms[i].DataLen)

\* C29: every codec loop terminates on every finite input: each iteration
\* either exits or strictly increases the position, and each recursive call
\* receives a strictly shorter buffer than its caller.  For ParseMP4Atoms
\* and parseChildAtoms: the atoms of a successful parse were read at
\* increasing positions and every container's children were parsed from a
\* buffer shorter than the one the container was read from.
C29_ProgressAndShorterBuffers ==
    \A i \in ParseEntries :
        mlog[i].res.err = "" =>
            /\ PositionsIncrease(mlog[i].res.atoms)
            /\ RecursionShrinks(mlog[i].res.atoms, Len(mlog[i].in))

\* the positions alone
C29_PositionsIncrease ==
    \A i \in ParseEntries :
        mlog[i].res.err = "" => PositionsIncrease(mlog[i].res.atoms)

\* a file that is one moov header of declared size 4: its children are
\* parsed from an allocation of 2^32 - 4 bytes
C29_LongerBuffer ==
    \E i \in ParseEntries :
        /\ mlog[i].in = <<0, 0, 0, 4>> \o Moov
        /\ mlog[i].res.err = ""
        /\ Len(mlog[i].res.atoms) = 1
        /\ mlog[i].res.atoms[1].DataLen = -4
        /\ Len(mlog[i].res.atoms[1].Children) = 1
        /\ mlog[i].res.atoms[1].Children[1].Size = -4

\* a nested container whose children are parsed from a shorter buffer
C29_ShorterBuffer ==
    \E i \in ParseEntries :
        /\ mlog[i].in = Mp4Of(<<"ftyp", "moov", "mvhd">>)
        /\ mlog[i].res.err = ""
        /\ RecursionShrinks(mlog[i].res.atoms, Len(mlog[i].in))
        /\ Len(mlog[i].res.atoms[2].Children) = 1

----------------------------------------------------------------------------
(* Claims about the EXIF payload builder *)

\* the two decimal digits of 0 <= n <= 99
TwoDigits(n) == <<48 + (n \div 10), 48 + (n % 10)>>

\* "YYYY:MM:DD HH:MM:SS" for a year from 0 to 9999
DateTimeText(t) ==
    <<48 + (t.year \div 1000), 48 + ((t.year \div 100) % 10),
      48 + ((t.year \div 10) % 10), 48 + (t.year % 10)>>
    \o <<58>> \o TwoDigits(t.month) \o <<58>> \o TwoDigits(t.day) \o <<32>>
    \o TwoDigits(t.hour) \o <<58>> \o TwoDigits(t.minute) \o <<58>> \o TwoDigits(t.second)

\* C14: for a timestamp whose year has four digits, CreateEXIFSegment
\* returns a payload that starts with "Exif\0\0", is at least 14 bytes long,
\* and ends with the data area, which is the 19 characters
\* "YYYY:MM:DD HH:MM:SS" of the timestamp and one zero byte: 20 bytes.
C14_PayloadCarriesDateTime ==
    (epc = "created" /\ dateTime.year >= 0 /\ dateTime.year <= 9999) =>
        /\ Len(exifOut) >= 14
        /\ SubSeq(exifOut, 1, 6) = ExifId
        /\ Len(exifOut) = 6 + dateTimeOffset + 20
        /\ SubSeq(exifOut, 6 + dateTimeOffset + 1, Len(exifOut)) = DateTimeText(dateTime) \o <<0>>

\* the payload for 2025-12-31 23:59:59
C14_Witness ==
    /\ epc = "created"
    /\ dateTime = [year |-> 2025, month |-> 12, day |-> 31,
                   hour |-> 23, minute |-> 59, second |-> 59]
    /\ SubSeq(exifOut, 87, 106) =
           <<50, 48, 50, 53, 58, 49, 50, 58, 51, 49, 32, 50, 51, 58, 53, 57, 58, 53, 57, 0>>

\* what a TIFF reader finds in the payload: offsets count from the start of
\* the TIFF header, which follows the 6 bytes of the identifier
TiffOf(payload) == SubSeq(payload, 7, Len(payload))

ReadUint16LE(tiff, off) == tiff[off + 1] + 256 * tiff[off + 2]

ReadUint32LE(tiff, off) ==
    tiff[off + 1] + 256 * tiff[off + 2] + 65536 * tiff[off + 3] + 16777216 * tiff[off + 4]

\* the tags of the n entries of the IFD at off
TagsAt(tiff, off, n) == [k \in 1..n |-> ReadUint16LE(tiff, off + 2 + 12 * (k - 1))]

\* the size of an IFD of n entries: count, entries, next-IFD offset
IfdSize(n) == 2 + 12 * n + 4

EXIFBuilt == epc \in {"created", "createdWithDefaults"}

\* C28: in the payload built by CreateEXIFSegment and
\* CreateEXIFSegmentWithDefaults the IFD0 offset of the TIFF header (8), the
\* Exif-IFD pointer stored in IFD0 (62) and the DateTimeOriginal value offset
\* (80) are the positions, from the start of the TIFF header, where IFD0,
\* the Exif-IFD and the date string begin in the assembled bytes, and the
\* DateTimeOriginal count is the length of the string with its terminator.
C28_OffsetsPointAtWhatTheyName ==
    EXIFBuilt =>
        LET tiff == TiffOf(exifOut)
            ifd0 == ReadUint32LE(tiff, 4)
            n0 == ReadUint16LE(tiff, ifd0)
            exifIFD == ReadUint32LE(tiff, ifd0 + 2 + 12 * 3 + 8)
            n1 == ReadUint16LE(tiff, exifIFD)
            count == ReadUint32LE(tiff, exifIFD + 2 + 4)
            dateOff == ReadUint32LE(tiff, exifIFD + 2 + 8) IN
        \* IFD0 begins where the 8 bytes of the header end
        /\ SubSeq(tiff, 1, 4) = <<73, 73, 42, 0>>
        /\ ifd0 = 8
        /\ n0 = 4
        /\ TagsAt(tiff, ifd0, n0) = <<256, 257, 274, 34665>>
        /\ ReadUint32LE(tiff, ifd0 + 2 + 12 * n0) = 0
        \* the Exif-IFD begins where IFD0 ends
        /\ exifIFD = 62
        /\ exifIFD = ifd0 + IfdSize(n0)
        /\ n1 = 1
        /\ TagsAt(tiff, exifIFD, n1) = <<36867>>
        /\ ReadUint16LE(tiff, exifIFD + 2 + 2) = 2
        /\ ReadUint32LE(tiff, exifIFD + 2 + 12 * n1) = 0
        \* the date string begins where the Exif-IFD ends and runs to the end
        /\ dateOff = 80
        /\ dateOff = exifIFD + IfdSize(n1)
        /\ dateOff + count = Len(tiff)
        /\ SubSeq(tiff, dateOff + 1, dateOff + count) = FormatDateTimeOriginal(dateTime)
        /\ tiff[dateOff + count] = 0

\* CreateEXIFSegmentWithDefaults for a 640 x 2147483647 image
C28_Witness ==
    /\ epc = "createdWithDefaults"
    /\ dateTime.year = 2025
    /\ ReadUint32LE(TiffOf(exifOut), 8 + 2 + 8) = 640
    /\ ReadUint32LE(TiffOf(exifOut), 8 + 2 + 12 + 8) = 2147483647
    /\ ReadUint32LE(TiffOf(exifOut), 8 + 2 + 36 + 8) = 62
    /\ ReadUint32LE(TiffOf(exifOut), 62 + 2 + 4) = 20

\* CreateEXIFSegment for a year of five digits: the count is 21
C28_LongYear ==
    /\ epc = "created"
    /\ dateTime.year = 10000
    /\ ReadUint32LE(TiffOf(exifOut), 62 + 2 + 4) = 21
    /\ Len(exifOut) = 6 + 80 + 21

----------------------------------------------------------------------------
(* Claims about updateExifData, updateJPEGExif and UpdateVideoMetadata on files *)

CodecCalls == {"UpdateVideoMetadata", "updateJPEGExif"}

CodecCallReturned == fpc = "done" /\ outcome.call \in CodecCalls

\* every file has the bytes it had before the call
SameBytes(before, after) ==
    /\ DOMAIN after.files = DOMAIN before.files
    /\ \A f \in DOMAIN before.files : after.files[f].data = before.files[f].data

C15_TruncatedWrite ==
    /\ CodecCallReturned
    /\ outcome.err = "failed to write file"
    /\ Content(world, target) = <<>>
    /\ Content(outcome.before, target) # <<>>

\* the file held a JPEG with an EXIF APP1 segment before the call
HadExif ==
    /\ Exists(outcome.before, target)
    /\ HasSOI(Content(outcome.before, target))
    /\ ParseJPEGSegments(Content(outcome.before, target)).err = ""
    /\ ~ParseJPEGSegments(Content(outcome.before, target)).panic
    /\ FindAPP1Segment(ParseJPEGSegments(Content(outcome.before, target)).segments) >= 0

\* the file's EXIF segment after the call
ExifAfter ==
    LET segments == ParseJPEGSegments(Content(world, target)).segments IN
    segments[FindAPP1Segment(segments) + 1]

\* C16: when the JPEG already has an EXIF APP1 segment and OverwriteExif is
\* false, updateJPEGExif returns nil and does nothing to the file; when
\* OverwriteExif is true and the call succeeds, the file was written once and
\* its EXIF segment is the new one, at the place of the old one.
C16_ExistingExifPreserved ==
    (fpc = "done" /\ outcome.call = "updateJPEGExif" /\ ~config.DryRun /\ HadExif) =>
        /\ ~config.OverwriteExif =>
               outcome.err = "" /\ ~outcome.panic /\ world = outcome.before
        /\ (config.OverwriteExif /\ outcome.err = "" /\ ~outcome.panic) =>
               /\ Len(world.ops) = 1
               /\ ExifAfter.Payload = CreateEXIFSegment(PatchDate)
               /\ FindAPP1Segment(ParseJPEGSegments(Content(world, target)).segments)
                      = FindAPP1Segment(ParseJPEGSegments(Content(outcome.before, target)).segments)
               /\ Len(ParseJPEGSegments(Content(world, target)).segments)
                      = Len(ParseJPEGSegments(Content(outcome.before, target)).segments)

C16_Witness ==
    /\ fpc = "done" /\ outcome.call = "updateJPEGExif" /\ ~config.DryRun /\ HadExif
    /\ ~config.OverwriteExif
    /\ outcome.err = ""
    /\ world = outcome.before

\* the other half of the case: with OverwriteExif the segment was replaced
C16_Replaced ==
    /\ fpc = "done" /\ outcome.call = "updateJPEGExif" /\ ~config.DryRun /\ HadExif
    /\ config.OverwriteExif
    /\ outcome.err = ""
    /\ ExifAfter.Payload = CreateEXIFSegment(PatchDate)
    /\ world # outcome.before

\* the formats whose content the documentation says is rewritten
DocumentedExts == {".jpg", ".jpeg", ".mp4", ".mov", ".3gp"}

\* C20: updateExifData rewrites file content only for .jpg/.jpeg and
\* .mp4/.mov/.3gp; for every other extension (AVI, MKV, FLV, M4V, PNG, GIF,
\* BMP, WebP) the file's bytes are left unchanged.
C20_RewritesOnlyDocumentedFormats ==
    (fpc = "done" /\ outcome.call = "updateExifData"
        /\ ToLower(target.ext) \notin DocumentedExts) =>
        SameBytes(outcome.before, world)

\* an .m4v file was patched like an .mp4 file
C20_M4VRewritten ==
    /\ fpc = "done" /\ outcome.call = "updateExifData"
    /\ target.ext = ".m4v"
    /\ outcome.err = ""
    /\ ~SameBytes(outcome.before, world)
    /\ Len(Content(world, target)) = Len(Content(outcome.before, target))
----------------------------------------------------------------------------
(* Claims about ProcessFile *)

ProcessFileReturned == fpc = "done" /\ outcome.call = "ProcessFile"

\* the operations that write, re-time or remove a file
FileOps == {"write", "chtimes", "remove"}

\* some operation of the call was on the input file
TouchedInput ==
    \E i \in 1..Len(world.ops) :
        world.ops[i].op \in FileOps /\ world.ops[i].on = FileOf(target)

\* C17: with OverrideOriginal false, for every OutputDir and InputDir, the
\* output path of ProcessFile names another file than the input path, and
\* ProcessFile does not write, re-time or remove the input file.
C17_OriginalsKeptWithoutOverride ==
    (ProcessFileReturned /\ ~config.OverrideOriginal) =>
        /\ outcome.Success => FileOf(outcome.OutputFile) # FileOf(target)
        /\ ~TouchedInput

\* without the override flag the original was patched in place
C17_OriginalPatchedInPlace ==
    /\ ProcessFileReturned /\ ~config.OverrideOriginal /\ ~config.DryRun
    /\ outcome.Success
    /\ outcome.OutputFile = target
    /\ Content(world, target) # Content(outcome.before, target)

\* without the override flag the original was removed by the cleanup
C17_OriginalRemoved ==
    /\ ProcessFileReturned /\ ~config.OverrideOriginal
    /\ Exists(outcome.before, target)
    /\ ~Exists(world, target)
    /\ outcome.err = "failed to update EXIF data"

DateOfNameParses ==
    /\ ExtractDateFromFilename(target.stem).err = ""
    /\ parseISODateTime(ExtractDateFromFilename(target.stem)).err = ""

\* C18: with DryRun, ProcessFile and updateExifData do nothing to the file
\* system (no directory made, no file copied, written, removed or re-timed);
\* ProcessFile reports Success with the output path it would have used when
\* the date of the name is extracted and parses, and an error otherwise.
C18_DryRunModifiesNothing ==
    (fpc = "done" /\ config.DryRun) =>
        /\ world = outcome.before
        /\ world.ops = <<>>
        /\ ~outcome.panic
        /\ outcome.call = "updateExifData" => outcome.err = ""
        /\ (outcome.call = "ProcessFile" /\ DateOfNameParses) =>
               /\ outcome.Success /\ outcome.err = ""
               /\ outcome.OutputFile = determineOutputPath(target, config)
        /\ (outcome.call = "ProcessFile" /\ ~DateOfNameParses) =>
               ~outcome.Success /\ outcome.err # ""

\* a dry run on an existing file that would have been copied to a new
\* directory and patched
C18_Witness ==
    /\ ProcessFileReturned /\ config.DryRun
    /\ config.OutputDir = "out" /\ config.UpdateModified
    /\ Exists(outcome.before, target)
    /\ outcome.Success
    /\ outcome.OutputFile = JoinBase("out", target)
    /\ world = outcome.before

\* a dry run of updateExifData on a file it would have patched
C18_UpdateReached ==
    /\ fpc = "done" /\ config.DryRun /\ outcome.call = "updateExifData"
    /\ target.ext = ".mp4"
    /\ Content(world, target) = Mp4Of(<<"ftyp", "moov", "mvhd">>)
----------------------------------------------------------------------------
(* Claims about MergeConfig *)

BoolOptions == {"UpdateModified", "OverwriteExif", "OverrideOriginal", "Verbose"}

\* the config file sets the boolean option
FileSets(option) == fileConfig # <<>> /\ fileConfig[1][option] # <<>>

\* C19: each boolean option of the merged configuration is true when the
\* CLI value is true, otherwise the config file's value when the file sets
\* it, otherwise the CLI value; OutputDir is the CLI value when non-empty,
\* otherwise the file's; DryRun and InputDir are the CLI values; with no
\* config file the result is the CLI configuration.
C19_MergePrecedence ==
    cpc = "merged" =>
        /\ \A option \in BoolOptions :
               merged[option] =
                   IF cliConfig[option] THEN TRUE
                   ELSE IF FileSets(option) THEN fileConfig[1][option][1]
                   ELSE cliConfig[option]
        /\ merged.OutputDir =
               IF cliConfig.OutputDir # "" THEN cliConfig.OutputDir
               ELSE IF fileConfig # <<>> THEN fileConfig[1].OutputDir
               ELSE cliConfig.OutputDir
        /\ merged.DryRun = cliConfig.DryRun
        /\ merged.InputDir = cliConfig.InputDir
        /\ fileConfig = <<>> => merged = cliConfig

\* a merge where the CLI's true beats the file's false, the file's true
\* fills in for the CLI's default, and the file's OutputDir is used
C19_Witness ==
    /\ cpc = "merged"
    /\ fileConfig # <<>>
    /\ cliConfig.OverwriteExif /\ fileConfig[1].OverwriteExif = <<FALSE>> /\ merged.OverwriteExif
    /\ ~cliConfig.UpdateModified /\ fileConfig[1].UpdateModified = <<TRUE>> /\ merged.UpdateModified
    /\ ~cliConfig.Verbose /\ fileConfig[1].Verbose = <<>> /\ ~merged.Verbose
    /\ cliConfig.OutputDir = "" /\ fileConfig[1].OutputDir = "out" /\ merged.OutputDir = "out"
----------------------------------------------------------------------------
(* Claims about FindAPP1Segment *)

\* the indexes (from 0) of the segments with marker 0xE1 and a payload of
\* at least 6 bytes that begins with "Exif\0\0"
ExifIndexes(segments) == {i \in 0..(Len(segments) - 1) : StartsWithExif(segments[i + 1])}

\* C26: FindAPP1Segment returns the lowest index i such that segments[i]
\* has marker 0xE1 and a payload of at least 6 bytes beginning with
\* "Exif\0\0", with a segment equal to segments[i]; it returns -1 and nil
\* exactly when there is no such segment.
C26_FindsFirstExif ==
    apc = "found" =>
        /\ ExifIndexes(asegs) = {} <=> ares.index = -1
        /\ ares.index = -1 <=> ares.segment = <<>>
        /\ ExifIndexes(asegs) # {} =>
               /\ ares.index \in ExifIndexes(asegs)
               /\ \A i \in ExifIndexes(asegs) : ares.index <= i
               /\ ares.segment = <<asegs[ares.index + 1]>>

\* the second of two EXIF segments is not the one returned, and the
\* segments in front of the first are an APP1 segment without the
\* identifier or a segment of another kind that carries it
C26_Witness ==
    /\ apc = "found"
    /\ Len(asegs) = 3
    /\ asegs[1].Payload = ExifId /\ asegs[1].Marker = markerAPP0
    /\ StartsWithExif(asegs[2]) /\ StartsWithExif(asegs[3])
    /\ ares.index = 1
    /\ ares.segment = <<asegs[2]>>

\* no segment matches: -1 and nil
C26_NoneFound ==
    /\ apc = "found"
    /\ Len(asegs) = 2
    /\ asegs[1] = JPEGSegment(markerAPP1, 7, SubSeq(ExifId, 1, 5))
    /\ asegs[2] = JPEGSegment(markerAPP0, 8, ExifId)
    /\ ares.index = -1 /\ ares.segment = <<>>
----------------------------------------------------------------------------
(* Claims about the output of ReassembleJPEG *)

EndsWithEOI(bytes) ==
    /\ Len(bytes) >= 2
    /\ bytes[Len(bytes) - 1] = 255
    /\ bytes[Len(bytes)] = 217

RECURSIVE SerializedLength(_)
SerializedLength(segments) ==
    IF segments = <<>> THEN 0
    ELSE 4 + Len(Head(segments).Payload) + SerializedLength(Tail(segments))

\* C27: for any segment list and any image data (including empty), the
\* output of ReassembleJPEG starts with FF D8 and ends with FF D9, and an
\* EOI is appended if and only if the image data does not already end with
\* FF D9: the output length is 2 + the sum over the segments of
\* (4 + len(Payload)) + len(imageData) + (2 if EOI was appended).
C27_OutputFramed ==
    rpc = "reassembled" =>
        /\ Len(rout) >= 4
        /\ rout[1] = 255 /\ rout[2] = 216
        /\ EndsWithEOI(rout)
        /\ Len(rout) = 2 + SerializedLength(segsIn) + Len(imgIn)
                         + (IF EndsWithEOI(imgIn) THEN 0 ELSE 2)

\* image data that ends with EOI after segments: nothing is appended
C27_Witness ==
    /\ rpc = "reassembled"
    /\ Len(segsIn) = 2
    /\ segsIn[1].Payload # <<>>
    /\ Len(imgIn) = 3
    /\ EndsWithEOI(imgIn)
    /\ Len(rout) = 2 + SerializedLength(segsIn) + 3

\* no segments and no image data: SOI and EOI only
C27_EmptyInput ==
    /\ rpc = "reassembled"
    /\ segsIn = <<>> /\ imgIn = <<>>
    /\ rout = <<255, 216, 255, 217>>

\* image data that ends with the byte FF alone: EOI is appended
C27_HalfMarker ==
    /\ rpc = "reassembled"
    /\ Len(imgIn) = 2
    /\ imgIn[2] = 255
    /\ Len(rout) = 2 + SerializedLength(segsIn) + 4
----------------------------------------------------------------------------
(* Claims about the date ProcessFile takes from the file name *)

PatternKinds == {"IMG", "VID", "WhatsApp Image", "WhatsApp Video"}

TimedKinds == {"WhatsApp Image", "WhatsApp Video"}

\* the digits of the date are a calendar date
SpellsDate(stem) ==
    /\ Number(stem.digits, 5, 6) \in 1..12
    /\ Number(stem.digits, 7, 8) >= 1
    /\ Number(stem.digits, 7, 8) <= DaysIn(Number(stem.digits, 5, 6), Number(stem.digits, 1, 4))

\* the digits of the time are a time of the 12-hour clock
SpellsClock(stem) ==
    /\ Number(stem.time, 1, Len(stem.time) - 4) \in 1..12
    /\ Number(stem.time, Len(stem.time) - 3, Len(stem.time) - 2) \in 0..59
    /\ Number(stem.time, Len(stem.time) - 1, Len(stem.time)) \in 0..59

SpellsDateTime(stem) ==
    SpellsDate(stem) /\ (stem.kind \in TimedKinds => SpellsClock(stem))

\* the hour of the day of an hour h of the 12-hour clock
HourOfDay(h, meridiem) == (h % 12) + (IF meridiem = "PM" THEN 12 ELSE 0)

\* the date and the time of day the name spells, midnight without a time
Spelled(stem) ==
    [year |-> Number(stem.digits, 1, 4),
     month |-> Number(stem.digits, 5, 6),
     day |-> Number(stem.digits, 7, 8),
     hour |-> IF stem.kind \in TimedKinds
              THEN HourOfDay(Number(stem.time, 1, Len(stem.time) - 4), stem.meridiem) ELSE 0,
     minute |-> IF stem.kind \in TimedKinds
                THEN Number(stem.time, Len(stem.time) - 3, Len(stem.time) - 2) ELSE 0,
     second |-> IF stem.kind \in TimedKinds
                THEN Number(stem.time, Len(stem.time) - 1, Len(stem.time)) ELSE 0]

\* ProcessFile succeeded and left a JPEG that is not the input's bytes
WroteJPEG ==
    /\ ProcessFileReturned /\ outcome.Success /\ ~config.DryRun
    /\ ToLower(target.ext) \in JPEGExts
    /\ Content(world, outcome.OutputFile) # Content(outcome.before, target)

\* the 19 characters of DateTimeOriginal in the EXIF segment of the output
WrittenDateTime ==
    LET segments == ParseJPEGSegments(Content(world, outcome.OutputFile)).segments IN
    SubSeq(segments[FindAPP1Segment(segments) + 1].Payload, 87, 105)

\* C30: a file name never yields a substituted date: for a name that
\* matches a default pattern, ProcessFile either uses exactly the date (and
\* for the "WhatsApp Image/Video ... at H.MM.SS AM|PM" patterns the time of
\* day) the captured digits spell, or fails with an error before any file
\* operation; digits that are no date or no 12-hour time never lead to a
\* successful run.
C30_NoSubstitutedDate ==
    (ProcessFileReturned /\ target.stem.kind \in PatternKinds) =>
        /\ ~SpellsDateTime(target.stem) =>
               /\ ~outcome.Success /\ outcome.err # ""
               /\ world = outcome.before
        /\ (SpellsDateTime(target.stem) /\ WroteJPEG) =>
               WrittenDateTime = DateTimeText(Spelled(target.stem))

\* the name spells month 13 and day 45: the run succeeds and writes
\* 0001:01:01 with the time of the name
C30_YearOneWritten ==
    /\ WroteJPEG
    /\ target.stem.digits = <<2, 0, 2, 5, 1, 3, 4, 5>>
    /\ WrittenDateTime = <<48, 48, 48, 49, 58, 48, 49, 58, 48, 49, 32,
                           48, 57, 58, 48, 52, 58, 48, 53>>

\* the name spells hour 13 PM: the run succeeds with the time 00:00:00
C30_MidnightUsed ==
    /\ ProcessFileReturned /\ outcome.Success /\ ~config.DryRun
    /\ target.stem.time = <<1, 3, 0, 4, 0, 5>>
    /\ world # outcome.before
    /\ parseISODateTime(ExtractDateFromFilename(target.stem)).t.hour = 0
    /\ parseISODateTime(ExtractDateFromFilename(target.stem)).t.minute = 0

\* a name that spells 2025-01-22 10.04.05 PM: 2025:01:22 22:04:05 is written
C30_SpelledWritten ==
    /\ WroteJPEG
    /\ target.stem.time = <<1, 0, 0, 4, 0, 5>>
    /\ WrittenDateTime = <<50, 48, 50, 53, 58, 48, 49, 58, 50, 50, 32,
                           50, 50, 58, 48, 52, 58, 48, 53>>

\* 12.30.00 AM is half past midnight
C30_TwelveAM ==
    /\ WroteJPEG
    /\ target.stem.time = <<1, 2, 3, 0, 0, 0>>
    /\ WrittenDateTime = DateTimeText(Spelled(target.stem))
    /\ SubSeq(WrittenDateTime, 12, 16) = <<48, 48, 58, 51, 48>>

\* IMG-20250230-WA: the run fails before any file operation
C30_InvalidImgFails ==
    /\ ProcessFileReturned /\ ~outcome.Success
    /\ target.stem = ImgStem(<<2, 0, 2, 5, 0, 2, 3, 0>>)
    /\ world = outcome.before

\* the dates the 8-digit patterns and valid names of the other two yield
C30_ValidNamesKeepDate ==
    (ProcessFileReturned /\ target.stem.kind \in PatternKinds /\ SpellsDateTime(target.stem)) =>
        /\ WroteJPEG => WrittenDateTime = DateTimeText(Spelled(target.stem))
====
